---- MODULE Spec2Model ----
(***************************************************************************)
(* Data-access contract layer of symbols-awakening-mcp: the in-memory      *)
(* DemoDatabase, the relational PrismaDatabase, and the get_symbol tool    *)
(* handler that consumes them.                                             *)
(*                                                                         *)
(* Text fields that the code orders or matches (name, category,            *)
(* description) are sequences of character codes, so that ordering and     *)
(* case folding are computed, not assumed.  Ids are opaque strings.        *)
(* Error messages are sequences of words, so that the code's               *)
(* message.includes(...) tests are computed on them.                       *)
(***************************************************************************)
EXTENDS Integers, Sequences, FiniteSets, TLC

VARIABLES
  backend,        \* which IDatabase implementation the process constructed
  symbols,        \* DemoDatabase.symbols: Symbol[] in insertion order
  symbolSets,     \* DemoDatabase.symbolSets: SymbolSet[]
  prisma,         \* PrismaDatabase.prisma: "null" or "client"
  droppedClients, \* PrismaClient instances that connect() overwrote in
                  \* this.prisma without $disconnect(): still open
  symbolTable,    \* rows of the relational table symbols (primary key id)
  symbolSetTable, \* rows of the relational table symbol_sets
  clock,          \* the wall clock read by now() / new Date()
  nops,           \* number of store mutations and dropped clients so far
  call,           \* the last Data-Access call: operation and arguments
  result,         \* the envelope that call returned
  payload,        \* the last tool or REST response (parsed JSON text), or
                  \* NoPayload
  csv,            \* the last CsvService call with the result it resolved to
  files,          \* the file at ExportOptions.filePath: NoFile or its records,
                  \* with the symbols and options it was written from
  process,        \* the server process: where main() is, the HTTP server, the
                  \* signal listeners in registration order, the exit code
  tasks,          \* deleteSymbol calls of the relational backend in flight
  pool            \* PostgreSQLDatabase.pool with its checked-out clients

vars == <<backend, symbols, symbolSets, prisma, droppedClients, symbolTable,
          symbolSetTable, clock, nops, call, result, payload, csv, files,
          process, tasks, pool>>

----------------------------------------------------------------------------
\* Bounds of the model.

MaxClock == 1
MaxOps == 2

----------------------------------------------------------------------------
\* Text values (character codes).

Str_Labyrinth == <<76, 97, 98, 121>>
Str_River == <<82, 105, 118, 101, 114>>
Str_Related == <<82, 101, 108, 97, 116, 101, 100>>
Str_Aardvark == <<65, 97, 114, 100>>
Str_journey == <<106, 111, 117, 114, 110, 101, 121>>
Str_Journey == <<74, 111, 117, 114, 110, 101, 121>>
Str_flow == <<102, 108, 111, 119>>
Str_test == <<116, 101, 115, 116>>
Str_demo == <<100, 101, 109, 111>>
Str_updated == <<117, 112, 100, 97, 116, 101, 100>>
Str_riverPath == <<97, 32, 114, 105, 118, 101, 114, 32, 112, 97, 116, 104>>
Str_DemoSet == <<68, 101, 109, 111, 32, 83, 101, 116>>

Min(a, b) == IF a <= b THEN a ELSE b

\* String comparison by character code, as ORDER BY name / orderBy asc
\* compares two names: TRUE iff a sorts strictly before b.
RECURSIVE StrLess(_, _)
StrLess(a, b) ==
  IF b = <<>> THEN FALSE
  ELSE IF a = <<>> THEN TRUE
  ELSE IF Head(a) < Head(b) THEN TRUE
  ELSE IF Head(a) > Head(b) THEN FALSE
  ELSE StrLess(Tail(a), Tail(b))

\* String.prototype.toLowerCase on the ASCII range.
toLowerCase(s) ==
  [i \in 1..Len(s) |-> IF s[i] >= 65 /\ s[i] <= 90 THEN s[i] + 32 ELSE s[i]]

\* normalize(text) of DemoDatabase.ts
normalize(text) == toLowerCase(text)

\* String.prototype.includes: needle occurs as a contiguous run of hay.
includes(hay, needle) ==
  \E i \in 0..Len(hay) :
    /\ i + Len(needle) <= Len(hay)
    /\ \A j \in 1..Len(needle) : hay[i + j] = needle[j]

\* [a, b, c].join(" ")
JoinSpace(a, b, c) == a \o <<32>> \o b \o <<32>> \o c

\* Array.prototype.slice(start, end) for 0 <= start <= end.
slice(s, start, end) ==
  IF start >= Len(s) THEN <<>> ELSE SubSeq(s, start + 1, Min(end, Len(s)))

\* related_symbols.filter((related) => related !== id)
filterOut(related_symbols, id) ==
  SelectSeq(related_symbols, LAMBDA related : related # id)

\* findIndex((item) => item.id === id), 1-based; 0 stands for -1.
findIndex(s, id) ==
  IF \E i \in 1..Len(s) : s[i].id = id
  THEN CHOOSE i \in 1..Len(s) :
         s[i].id = id /\ \A j \in 1..(i - 1) : s[j].id # id
  ELSE 0

\* Array.prototype.splice(index, 1), index 1-based.
splice1(s, index) == SubSeq(s, 1, index - 1) \o SubSeq(s, index + 1, Len(s))

\* { ...current, ...updates }
Spread(current, updates) ==
  [f \in DOMAIN current \cup DOMAIN updates |->
     IF f \in DOMAIN updates THEN updates[f] ELSE current[f]]

----------------------------------------------------------------------------
\* Result envelope (QueryResult<T>) and error messages.

Null == [null |-> TRUE]
NoPayload == [none |-> TRUE]
NoObject == <<>>

Ok(data) == [success |-> TRUE, data |-> data]
Fail(message) == [success |-> FALSE, error |-> [message |-> message]]

MsgSymbolAlreadyExists(id) == <<"Symbol with ID", id, "already", "exists">>
MsgSymbolNotFound(id) == <<"Symbol with ID", id, "not", "found">>
MsgSetAlreadyExists(id) == <<"Symbol set with ID", id, "already", "exists">>
MsgSetNotFound(id) == <<"Symbol set with ID", id, "not", "found">>
MsgNotConnected == <<"Database", "not", "connected">>

\* const { limit = 50, offset = 0 } = options
DefaultLimit == 50
OptLimit(options) ==
  IF "limit" \in DOMAIN options THEN options.limit ELSE DefaultLimit
OptOffset(options) ==
  IF "offset" \in DOMAIN options THEN options.offset ELSE 0

Stamp(rec, created, updated) ==
  Spread(rec, [created_at |-> created, updated_at |-> updated])

----------------------------------------------------------------------------
\* Ordering helpers.

\* A column that holds no string (null).
NullStr == <<0 - 1>>

\* value ?? ""
OrEmpty(value) == IF value = NullStr THEN <<>> ELSE value

\* All arrangements of the finite set S as a sequence without repetition.
Perms(S) ==
  {s \in [1..Cardinality(S) -> S] :
     \A i, j \in 1..Cardinality(S) : i # j => s[i] # s[j]}

\* a.localeCompare(b) < 0: letters compare without case first, and on a tie
\* the lowercase form sorts first.
localeLess(a, b) ==
  \/ StrLess(toLowerCase(a), toLowerCase(b))
  \/ toLowerCase(a) = toLowerCase(b) /\ StrLess(b, a)

\* categories.sort((a, b) => a.localeCompare(b))
SortLocale(S) ==
  CHOOSE s \in Perms(S) :
    \A i, j \in 1..Len(s) : i < j => ~localeLess(s[j], s[i])

\* orderBy: { category: "asc" } over distinct values.
SortAsc(S) ==
  CHOOSE s \in Perms(S) : \A i, j \in 1..Len(s) : i < j => ~StrLess(s[j], s[i])

\* The values of s as a set.
Range(s) == {s[i] : i \in 1..Len(s)}

----------------------------------------------------------------------------
\* DemoDatabase (src/src/database/DemoDatabase.ts).  Each operator takes the
\* array it works on and returns the envelope; a mutating operator returns
\* the new array as well.

Demo_getSymbols(syms, options) ==
  Ok(slice(syms, OptOffset(options), OptOffset(options) + OptLimit(options)))

\* Demo_getSymbol that answers with the first stored symbol.
Demo_getSymbol_first(syms, id) ==
  Ok(IF syms = <<>> THEN Null ELSE syms[1])

Demo_getSymbol(syms, id) ==
  LET index == findIndex(syms, id)
  IN  Ok(IF index = 0 THEN Null ELSE syms[index])

\* The haystack test shared by searchSymbols and searchSymbolSets.
Demo_haystackMatch(item, query) ==
  includes(toLowerCase(JoinSpace(item.name, OrEmpty(item.description),
                                 OrEmpty(item.category))),
           normalize(query))

Demo_searchSymbols(syms, query, options) ==
  LET results == SelectSeq(syms,
                             LAMBDA symbol : Demo_haystackMatch(symbol, query))
  IN  Ok(slice(results, OptOffset(options),
               OptOffset(options) + OptLimit(options)))

Demo_filterByCategory(syms, category, options) ==
  LET needle == normalize(category)
      results == SelectSeq(syms,
                   LAMBDA symbol : normalize(OrEmpty(symbol.category)) = needle)
  IN  Ok(slice(results, OptOffset(options),
               OptOffset(options) + OptLimit(options)))

Demo_getCategories(syms) ==
  LET categories == {syms[i].category : i \in 1..Len(syms)} \ {NullStr, <<>>}
  IN  Ok(SortLocale(categories))

Demo_getSymbolSets(sets, options) ==
  Ok(slice(sets, OptOffset(options), OptOffset(options) + OptLimit(options)))

Demo_searchSymbolSets(sets, query, options) ==
  LET results == SelectSeq(sets, LAMBDA set : Demo_haystackMatch(set, query))
  IN  Ok(slice(results, OptOffset(options),
               OptOffset(options) + OptLimit(options)))

Demo_healthCheck(t) == Ok([status |-> "healthy", timestamp |-> t])

\* Demo_createSymbol without the check for a stored id.
Demo_createSymbol_noCheck(syms, symbol, t) ==
  LET created == Stamp(symbol, t, t)
  IN  [store |-> Append(syms, created), result |-> Ok(created)]

Demo_createSymbol(syms, symbol, t) ==
  IF \E i \in 1..Len(syms) : syms[i].id = symbol.id
  THEN [store |-> syms, result |-> Fail(MsgSymbolAlreadyExists(symbol.id))]
  ELSE LET created == Stamp(symbol, t, t)
       IN  [store |-> Append(syms, created), result |-> Ok(created)]

\* Demo_updateSymbol that stamps created_at as well.
Demo_updateSymbol_touchCreated(syms, id, updates, t) ==
  LET index == findIndex(syms, id)
  IN  IF index = 0
      THEN [store |-> syms, result |-> Fail(MsgSymbolNotFound(id))]
      ELSE LET updated == Spread(Spread(syms[index], updates),
                                 [created_at |-> t, updated_at |-> t])
           IN  [store |-> [syms EXCEPT ![index] = updated],
                result |-> Ok(updated)]

Demo_updateSymbol(syms, id, updates, t) ==
  LET index == findIndex(syms, id)
  IN  IF index = 0
      THEN [store |-> syms, result |-> Fail(MsgSymbolNotFound(id))]
      ELSE LET updated == Spread(Spread(syms[index], updates),
                                 [updated_at |-> t])
           IN  [store |-> [syms EXCEPT ![index] = updated],
                result |-> Ok(updated)]

\* Demo_deleteSymbol that treats a missing id as already deleted.
Demo_deleteSymbol_lenient(syms, id, cascade) ==
  LET index == findIndex(syms, id)
  IN  IF index = 0
      THEN [store |-> syms, result |-> Ok(TRUE)]
      ELSE LET rest == splice1(syms, index)
               stripped ==
                 [i \in 1..Len(rest) |->
                    Spread(rest[i],
                      [related_symbols |->
                         filterOut(rest[i].related_symbols, id)])]
           IN  [store |-> IF cascade THEN stripped ELSE rest,
                result |-> Ok(TRUE)]

Demo_deleteSymbol(syms, id, cascade) ==
  LET index == findIndex(syms, id)
  IN  IF index = 0
      THEN [store |-> syms, result |-> Fail(MsgSymbolNotFound(id))]
      ELSE LET rest == splice1(syms, index)
               stripped ==
                 [i \in 1..Len(rest) |->
                    Spread(rest[i],
                      [related_symbols |->
                         filterOut(rest[i].related_symbols, id)])]
           IN  [store |-> IF cascade THEN stripped ELSE rest,
                result |-> Ok(TRUE)]

\* Demo_createSymbolSet without the check for a stored id.
Demo_createSymbolSet_noCheck(sets, symbolSet, t) ==
  LET created == Stamp(symbolSet, t, t)
  IN  [store |-> Append(sets, created), result |-> Ok(created)]

Demo_createSymbolSet(sets, symbolSet, t) ==
  IF \E i \in 1..Len(sets) : sets[i].id = symbolSet.id
  THEN [store |-> sets, result |-> Fail(MsgSetAlreadyExists(symbolSet.id))]
  ELSE LET created == Stamp(symbolSet, t, t)
       IN  [store |-> Append(sets, created), result |-> Ok(created)]

Demo_updateSymbolSet(sets, id, updates, t) ==
  LET index == findIndex(sets, id)
  IN  IF index = 0
      THEN [store |-> sets, result |-> Fail(MsgSetNotFound(id))]
      ELSE LET updated == Spread(Spread(sets[index], updates),
                                 [updated_at |-> t])
           IN  [store |-> [sets EXCEPT ![index] = updated],
                result |-> Ok(updated)]

----------------------------------------------------------------------------
\* PrismaDatabase (src/unnamed/part_006).  rows is the table the ORM call
\* runs against.  failAt numbers the ORM call of the method that rejects
\* (0: none does).  An operator returns the set of outcomes the database may
\* produce: rows with equal name may come back in either order.

MsgOrmFailure == <<"Cannot", "reach", "database", "server">>
MsgUniqueConstraint ==
  <<"Unique", "constraint", "failed", "on", "the", "fields:", "(id)">>

\* findMany({ orderBy: { name: "asc" } }) over the set of rows S.
OrderByName(S) ==
  {s \in Perms(S) :
     \A i, j \in 1..Len(s) : i < j => ~StrLess(s[j].name, s[i].name)}

\* findMany({ take, skip, orderBy }) applied to one ordering.
TakeSkip(s, options) ==
  slice(s, OptOffset(options), OptOffset(options) + OptLimit(options))

\* { contains: query, mode: "insensitive" }
ContainsInsensitive(column, query) ==
  /\ column # NullStr
  /\ includes(toLowerCase(column), toLowerCase(query))

Prisma_searchWhere(row, query) ==
  \/ ContainsInsensitive(row.name, query)
  \/ ContainsInsensitive(row.description, query)
  \/ ContainsInsensitive(row.category, query)

\* Prisma_read with a catch block that also returns an empty data list.
Prisma_read_dataOnFailure(client, failAt, answers) ==
  IF client = "null" THEN {Fail(MsgNotConnected)}
  ELSE IF failAt = 1
  THEN {[success |-> FALSE, error |-> [message |-> MsgOrmFailure],
         data |-> <<>>]}
  ELSE {Ok(a) : a \in answers}

\* The shape shared by the read methods: guard, one ORM call, catch.
Prisma_read(client, failAt, answers) ==
  IF client = "null" THEN {Fail(MsgNotConnected)}
  ELSE IF failAt = 1 THEN {Fail(MsgOrmFailure)}
  ELSE {Ok(a) : a \in answers}

Prisma_getSymbols(client, rows, options, failAt) ==
  Prisma_read(client, failAt,
              {TakeSkip(s, options) : s \in OrderByName(rows)})

Prisma_searchSymbols(client, rows, query, options, failAt) ==
  Prisma_read(client, failAt,
    {TakeSkip(s, options) :
       s \in OrderByName({r \in rows : Prisma_searchWhere(r, query)})})

\* Prisma_filterByCategory with a where clause that ignores case.
Prisma_filterByCategory_insensitive(client, rows, category, options, failAt) ==
  Prisma_read(client, failAt,
    {TakeSkip(s, options) :
       s \in OrderByName({r \in rows :
                            toLowerCase(r.category) = toLowerCase(category)})})

Prisma_filterByCategory(client, rows, category, options, failAt) ==
  Prisma_read(client, failAt,
    {TakeSkip(s, options) :
       s \in OrderByName({r \in rows : r.category = category})})

Prisma_getCategories(client, rows, failAt) ==
  Prisma_read(client, failAt,
    {SortAsc({r.category : r \in rows} \ {NullStr})})

Prisma_getSymbolSets(client, rows, options, failAt) ==
  Prisma_read(client, failAt,
              {TakeSkip(s, options) : s \in OrderByName(rows)})

Prisma_searchSymbolSets(client, rows, query, options, failAt) ==
  Prisma_read(client, failAt,
    {TakeSkip(s, options) :
       s \in OrderByName({r \in rows : Prisma_searchWhere(r, query)})})

\* Prisma_healthCheck without the guard on this.prisma: the null client is
\* dereferenced and the TypeError lands in the catch block.
Prisma_healthCheck_noGuard(client, failAt, t) ==
  IF client = "null"
  THEN {Fail(<<"Cannot", "read", "properties", "of", "null">>)}
  ELSE Prisma_read(client, failAt, {[status |-> "healthy", timestamp |-> t]})

Prisma_healthCheck(client, failAt, t) ==
  Prisma_read(client, failAt, {[status |-> "healthy", timestamp |-> t]})

\* The catch block of createSymbol / createSymbolSet.
Prisma_createCatch(message, alreadyExists) ==
  IF includes(message, <<"Unique", "constraint">>)
  THEN Fail(alreadyExists)
  ELSE Fail(message)

\* The columns createSymbol hands to symbol.create.
SymbolColumns ==
  {"id", "name", "category", "description", "interpretations",
   "related_symbols", "properties"}
SymbolSetColumns == {"id", "name", "category", "description", "symbols"}

Prisma_createSymbol(client, rows, symbol, failAt, t) ==
  IF client = "null"
  THEN [store |-> rows, result |-> Fail(MsgNotConnected)]
  ELSE IF failAt = 1
  THEN [store |-> rows,
        result |-> Prisma_createCatch(MsgOrmFailure,
                                      MsgSymbolAlreadyExists(symbol.id))]
  ELSE IF \E r \in rows : r.id = symbol.id
  THEN [store |-> rows,
        result |-> Prisma_createCatch(MsgUniqueConstraint,
                                      MsgSymbolAlreadyExists(symbol.id))]
  ELSE LET created == Stamp([c \in SymbolColumns |-> symbol[c]], t, t)
       IN  [store |-> rows \cup {created}, result |-> Ok(created)]

\* Prisma_updateSymbol that does not write updated_at.
Prisma_updateSymbol_staleUpdatedAt(client, rows, id, updates, failAt, t) ==
  IF client = "null"
  THEN [store |-> rows, result |-> Fail(MsgNotConnected)]
  ELSE IF failAt = 1
  THEN [store |-> rows, result |-> Fail(MsgOrmFailure)]
  ELSE IF ~\E r \in rows : r.id = id
  THEN [store |-> rows, result |-> Fail(MsgSymbolNotFound(id))]
  ELSE IF failAt = 2
  THEN [store |-> rows, result |-> Fail(MsgOrmFailure)]
  ELSE LET existing == CHOOSE r \in rows : r.id = id
           updated == Spread(existing, updates)
       IN  [store |-> (rows \ {existing}) \cup {updated},
            result |-> Ok(updated)]

Prisma_updateSymbol(client, rows, id, updates, failAt, t) ==
  IF client = "null"
  THEN [store |-> rows, result |-> Fail(MsgNotConnected)]
  ELSE IF failAt = 1
  THEN [store |-> rows, result |-> Fail(MsgOrmFailure)]
  ELSE IF ~\E r \in rows : r.id = id
  THEN [store |-> rows, result |-> Fail(MsgSymbolNotFound(id))]
  ELSE IF failAt = 2
  THEN [store |-> rows, result |-> Fail(MsgOrmFailure)]
  ELSE LET existing == CHOOSE r \in rows : r.id = id
           updated == Spread(Spread(existing, updates), [updated_at |-> t])
       IN  [store |-> (rows \ {existing}) \cup {updated},
            result |-> Ok(updated)]

\* Prisma_stripReference that writes updated_at only and keeps the list.
Prisma_stripReference_keep(rows, refId, id, t) ==
  {IF r.id = refId THEN Spread(r, [updated_at |-> t]) ELSE r : r \in rows}

\* One symbol.update of the cascade loop: strip id from the list of refId.
Prisma_stripReference(rows, refId, id, t) ==
  {IF r.id = refId
   THEN Spread(r, [related_symbols |->
                     filterOut(r.related_symbols, id),
                   updated_at |-> t])
   ELSE r : r \in rows}

\* The cascade loop over referencing[from..upto], in that order.
RECURSIVE Prisma_stripLoop(_, _, _, _, _, _)
Prisma_stripLoop(rows, referencing, from, upto, id, t) ==
  IF from > upto THEN rows
  ELSE Prisma_stripLoop(Prisma_stripReference(rows, referencing[from], id, t),
                        referencing, from + 1, upto, id, t)

\* The number of ORM calls deleteSymbol makes when none rejects.
Prisma_deleteCalls(rows, id, cascade) ==
  IF ~\E r \in rows : r.id = id THEN 1
  ELSE IF ~cascade THEN 2
  ELSE 3 + Cardinality({q \in rows :
                          \E k \in 1..Len(q.related_symbols) :
                            q.related_symbols[k] = id})

\* ORM calls of deleteSymbol: 1 findUnique, 2 findMany (cascade only), then
\* one update per referencing symbol, then delete.
Prisma_deleteSymbol(client, rows, id, cascade, failAt, t) ==
  IF client = "null"
  THEN {[store |-> rows, result |-> Fail(MsgNotConnected)]}
  ELSE IF failAt = 1
  THEN {[store |-> rows, result |-> Fail(MsgOrmFailure)]}
  ELSE IF ~\E r \in rows : r.id = id
  THEN {[store |-> rows, result |-> Fail(MsgSymbolNotFound(id))]}
  ELSE IF ~cascade
  THEN {IF failAt = 2
        THEN [store |-> rows, result |-> Fail(MsgOrmFailure)]
        ELSE [store |-> {r \in rows : r.id # id}, result |-> Ok(TRUE)]}
  ELSE IF failAt = 2
  THEN {[store |-> rows, result |-> Fail(MsgOrmFailure)]}
  ELSE LET refIds == {r.id : r \in {q \in rows :
                        \E k \in 1..Len(q.related_symbols) :
                          q.related_symbols[k] = id}}
           n == Cardinality(refIds)
       IN  {IF failAt >= 3 /\ failAt <= n + 2
            THEN [store |-> Prisma_stripLoop(rows, referencing, 1,
                                             failAt - 3, id, t),
                  result |-> Fail(MsgOrmFailure)]
            ELSE LET stripped ==
                       Prisma_stripLoop(rows, referencing, 1, n, id, t)
                 IN  IF failAt = n + 3
                     THEN [store |-> stripped, result |-> Fail(MsgOrmFailure)]
                     ELSE [store |-> {r \in stripped : r.id # id},
                           result |-> Ok(TRUE)]
            : referencing \in Perms(refIds)}

Prisma_createSymbolSet(client, rows, symbolSet, failAt, t) ==
  IF client = "null"
  THEN [store |-> rows, result |-> Fail(MsgNotConnected)]
  ELSE IF failAt = 1
  THEN [store |-> rows,
        result |-> Prisma_createCatch(MsgOrmFailure,
                                      MsgSetAlreadyExists(symbolSet.id))]
  ELSE IF \E r \in rows : r.id = symbolSet.id
  THEN [store |-> rows,
        result |-> Prisma_createCatch(MsgUniqueConstraint,
                                      MsgSetAlreadyExists(symbolSet.id))]
  ELSE LET created == Stamp([c \in SymbolSetColumns |-> symbolSet[c]], t, t)
       IN  [store |-> rows \cup {created}, result |-> Ok(created)]

Prisma_updateSymbolSet(client, rows, id, updates, failAt, t) ==
  IF client = "null"
  THEN [store |-> rows, result |-> Fail(MsgNotConnected)]
  ELSE IF failAt = 1
  THEN [store |-> rows, result |-> Fail(MsgOrmFailure)]
  ELSE IF ~\E r \in rows : r.id = id
  THEN [store |-> rows, result |-> Fail(MsgSetNotFound(id))]
  ELSE IF failAt = 2
  THEN [store |-> rows, result |-> Fail(MsgOrmFailure)]
  ELSE LET existing == CHOOSE r \in rows : r.id = id
           updated == Spread(Spread(existing, updates), [updated_at |-> t])
       IN  [store |-> (rows \ {existing}) \cup {updated},
            result |-> Ok(updated)]

----------------------------------------------------------------------------
\* Data the model runs on.

Str_river == <<114, 105, 118, 101, 114>>
Str_nonexistent == <<110, 111, 110, 101>>

SeedSymbols ==
  << [id |-> "labyrinth", name |-> Str_Labyrinth, category |-> Str_journey,
      description |-> Str_riverPath, interpretations |-> NoObject,
      related_symbols |-> <<"river">>, properties |-> NoObject],
     [id |-> "river", name |-> Str_River, category |-> Str_flow,
      description |-> Str_demo, interpretations |-> NoObject,
      related_symbols |-> <<"labyrinth">>, properties |-> NoObject] >>

SeedSymbolSets ==
  << [id |-> "cycles", name |-> Str_Journey, category |-> Str_journey,
      description |-> Str_demo, symbols |-> [river |-> 1]] >>

\* Arguments of createSymbol.
SymbolInputs ==
  { [id |-> "related", name |-> Str_Related, category |-> Str_test,
     description |-> Str_demo, interpretations |-> NoObject,
     related_symbols |-> <<"labyrinth", "river", "labyrinth">>,
     properties |-> [origin |-> "test"]],
    [id |-> "river", name |-> Str_River, category |-> Str_Journey,
     description |-> Str_updated, interpretations |-> [dream |-> "passage"],
     related_symbols |-> <<>>, properties |-> NoObject] }

\* Arguments of updateSymbol: Partial<Omit<Symbol, id | created_at | updated_at>>.
NoUpdates == <<>>
SymbolUpdates ==
  { [name |-> Str_Aardvark, description |-> Str_updated,
     related_symbols |-> <<"river", "labyrinth">>],
    NoUpdates }

\* Ids handed to getSymbol, updateSymbol and deleteSymbol.
SymbolIds == {"labyrinth", "related", "missing"}
UpdateIds == {"labyrinth", "missing"}
DeleteIds == {"river", "missing"}

SymbolSetInputs ==
  { [id |-> "demo-set", name |-> Str_DemoSet, category |-> Str_test,
     description |-> Str_demo, symbols |-> [labyrinth |-> 1]],
    [id |-> "cycles", name |-> Str_DemoSet, category |-> Str_test,
     description |-> Str_demo, symbols |-> NoObject] }

SymbolSetUpdates == { [description |-> Str_updated] }

SymbolSetIds == {"cycles", "missing"}

\* QueryOptions values; NoOptions is the omitted argument.
NoOptions == <<>>
QueryOptionsInputs ==
  { NoOptions, [limit |-> 1], [limit |-> 2, offset |-> 1] }

SearchOptionsInputs == { NoOptions }

Queries == { Str_river }
Categories == { Str_Journey }
SetQueries == { Str_nonexistent }

MaxFailAt == 5
FailPoints == 0..MaxFailAt

----------------------------------------------------------------------------
\* State machine.

now == clock

StampAll(s, t) == [i \in 1..Len(s) |-> Stamp(s[i], t, t)]

NoCall == [op |-> "none"]
NoFile == [exists |-> FALSE]
NoProcess == [pc |-> "none"]
NoPool == [pool |-> "null"]
NoResult == [none |-> TRUE]

\* DemoDatabase constructor (seeded, stamped with one timestamp) or
\* PrismaDatabase constructor (no client yet) over a seeded database.
Init ==
  /\ backend \in {"demo", "prisma"}
  /\ symbols = StampAll(SeedSymbols, 0)
  /\ symbolSets = StampAll(SeedSymbolSets, 0)
  /\ prisma = "null"
  /\ droppedClients = 0
  /\ symbolTable = Range(StampAll(SeedSymbols, 0))
  /\ symbolSetTable = Range(StampAll(SeedSymbolSets, 0))
  /\ clock = 0
  /\ nops = 0
  /\ call = NoCall
  /\ result = NoResult
  /\ payload = NoPayload
  /\ csv = NoCall
  /\ files = NoFile
  /\ process = NoProcess
  /\ tasks = {}
  /\ pool = NoPool

Tick ==
  /\ clock < MaxClock
  /\ clock' = clock + 1
  /\ UNCHANGED <<backend, process, tasks, pool, csv, files, droppedClients, symbols, symbolSets, prisma, symbolTable,
                 symbolSetTable, nops, call, result, payload>>

Stored(id) ==
  IF backend = "demo"
  THEN \E i \in 1..Len(symbols) : symbols[i].id = id
  ELSE \E r \in symbolTable : r.id = id

StoredSet(id) ==
  IF backend = "demo"
  THEN \E i \in 1..Len(symbolSets) : symbolSets[i].id = id
  ELSE \E r \in symbolSetTable : r.id = id

\* A read on the in-memory backend: only call and result change.
DemoRead(c, r) ==
  /\ backend = "demo"
  /\ call' = c
  /\ result' = r
  /\ payload' = NoPayload
  /\ UNCHANGED <<backend, process, tasks, pool, csv, files, droppedClients, symbols, symbolSets, prisma, symbolTable,
                 symbolSetTable, clock, nops>>

DemoGetSymbols ==
  \E options \in QueryOptionsInputs :
    DemoRead([op |-> "getSymbols", options |-> options],
             Demo_getSymbols(symbols, options))

DemoGetSymbol ==
  \E id \in SymbolIds :
    DemoRead([op |-> "getSymbol", id |-> id, existed |-> Stored(id)],
             Demo_getSymbol(symbols, id))

DemoSearchSymbols ==
  \E query \in Queries, options \in SearchOptionsInputs :
    DemoRead([op |-> "searchSymbols", query |-> query, options |-> options],
             Demo_searchSymbols(symbols, query, options))

DemoFilterByCategory ==
  \E category \in Categories, options \in SearchOptionsInputs :
    DemoRead([op |-> "filterByCategory", category |-> category,
              options |-> options],
             Demo_filterByCategory(symbols, category, options))

DemoGetCategories ==
  DemoRead([op |-> "getCategories"], Demo_getCategories(symbols))

DemoGetSymbolSets ==
  \E options \in SearchOptionsInputs :
    DemoRead([op |-> "getSymbolSets", options |-> options],
             Demo_getSymbolSets(symbolSets, options))

DemoSearchSymbolSets ==
  \E query \in SetQueries, options \in SearchOptionsInputs :
    DemoRead([op |-> "searchSymbolSets", query |-> query,
              options |-> options],
             Demo_searchSymbolSets(symbolSets, query, options))

DemoHealthCheck ==
  DemoRead([op |-> "healthCheck"], Demo_healthCheck(now))

\* A write on the in-memory symbols array.
DemoWrite(c, out) ==
  /\ backend = "demo"
  /\ nops < MaxOps
  /\ call' = c
  /\ result' = out.result
  /\ symbols' = out.store
  /\ nops' = IF out.store = symbols THEN nops ELSE nops + 1
  /\ payload' = NoPayload
  /\ UNCHANGED <<backend, process, tasks, pool, csv, files, droppedClients, symbolSets, prisma, symbolTable, symbolSetTable,
                 clock>>

DemoCreateSymbol ==
  \E symbol \in SymbolInputs :
    DemoWrite([op |-> "createSymbol", id |-> symbol.id, symbol |-> symbol,
               existed |-> Stored(symbol.id), at |-> now],
              Demo_createSymbol(symbols, symbol, now))

DemoUpdateSymbol ==
  \E id \in UpdateIds, updates \in SymbolUpdates :
    DemoWrite([op |-> "updateSymbol", id |-> id, updates |-> updates,
               existed |-> Stored(id), at |-> now],
              Demo_updateSymbol(symbols, id, updates, now))

DemoDeleteSymbol ==
  \E id \in DeleteIds, cascade \in BOOLEAN :
    DemoWrite([op |-> "deleteSymbol", id |-> id, cascade |-> cascade,
               existed |-> Stored(id), at |-> now],
              Demo_deleteSymbol(symbols, id, cascade))

\* A write on the in-memory symbolSets array.
DemoWriteSet(c, out) ==
  /\ backend = "demo"
  /\ nops < MaxOps
  /\ call' = c
  /\ result' = out.result
  /\ symbolSets' = out.store
  /\ nops' = IF out.store = symbolSets THEN nops ELSE nops + 1
  /\ payload' = NoPayload
  /\ UNCHANGED <<backend, process, tasks, pool, csv, files, droppedClients, symbols, prisma, symbolTable, symbolSetTable,
                 clock>>

DemoCreateSymbolSet ==
  \E symbolSet \in SymbolSetInputs :
    DemoWriteSet([op |-> "createSymbolSet", id |-> symbolSet.id,
                  symbolSet |-> symbolSet, existed |-> StoredSet(symbolSet.id),
                  at |-> now],
                 Demo_createSymbolSet(symbolSets, symbolSet, now))

DemoUpdateSymbolSet ==
  \E id \in SymbolSetIds, updates \in SymbolSetUpdates :
    DemoWriteSet([op |-> "updateSymbolSet", id |-> id, updates |-> updates,
                  existed |-> StoredSet(id), at |-> now],
                 Demo_updateSymbolSet(symbolSets, id, updates, now))

\* PrismaDatabase.connect: a new client is assigned to this.prisma before
\* $connect() is awaited, whatever this.prisma held; a rejected $connect()
\* is rethrown to the caller.  A client that is overwritten is never
\* disconnected and is no longer reachable from the backend.
PrismaConnect ==
  \E rejects \in BOOLEAN :
    /\ backend = "prisma"
    /\ prisma # "null" => nops < MaxOps
    /\ prisma' = "client"
    /\ droppedClients' = droppedClients + (IF prisma # "null" THEN 1 ELSE 0)
    /\ nops' = nops + (IF prisma # "null" THEN 1 ELSE 0)
    /\ call' = [op |-> "connect", threw |-> rejects,
                hadClient |-> (prisma # "null")]
    /\ result' = NoResult
    /\ payload' = NoPayload
    /\ UNCHANGED <<backend, process, tasks, pool, csv, files, symbols, symbolSets, symbolTable, symbolSetTable,
                   clock>>

\* PrismaDatabase.disconnect: $disconnect() on the client this.prisma holds,
\* if any.
PrismaDisconnect ==
  /\ backend = "prisma"
  /\ prisma' = "null"
  /\ droppedClients' = droppedClients
  /\ call' = [op |-> "disconnect", hadClient |-> (prisma # "null"),
              threw |-> FALSE]
  /\ result' = NoResult
  /\ payload' = NoPayload
  /\ UNCHANGED <<backend, process, tasks, pool, csv, files, symbols, symbolSets, symbolTable, symbolSetTable,
                 clock, nops>>

\* The ORM call of a method that rejects: 0 for none, else one of its
\* first n calls.  Without a client the method makes no ORM call.
OrmFaults(n) == IF prisma = "null" THEN {0} ELSE 0..n

\* A read on the relational backend; r is one of the possible envelopes.
PrismaRead(c, envelopes) ==
  /\ backend = "prisma"
  /\ \E r \in envelopes : result' = r
  /\ call' = c
  /\ payload' = NoPayload
  /\ UNCHANGED <<backend, process, tasks, pool, csv, files, droppedClients, symbols, symbolSets, prisma, symbolTable,
                 symbolSetTable, clock, nops>>

PrismaGetSymbols ==
  \E options \in QueryOptionsInputs, failAt \in OrmFaults(1) :
    PrismaRead([op |-> "getSymbols", options |-> options],
               Prisma_getSymbols(prisma, symbolTable, options, failAt))

PrismaSearchSymbols ==
  \E query \in Queries, options \in SearchOptionsInputs, failAt \in OrmFaults(1) :
    PrismaRead([op |-> "searchSymbols", query |-> query, options |-> options],
               Prisma_searchSymbols(prisma, symbolTable, query, options,
                                    failAt))

PrismaFilterByCategory ==
  \E category \in Categories, options \in SearchOptionsInputs, failAt \in OrmFaults(1) :
    PrismaRead([op |-> "filterByCategory", category |-> category,
                options |-> options],
               Prisma_filterByCategory(prisma, symbolTable, category, options,
                                       failAt))

PrismaGetCategories ==
  \E failAt \in OrmFaults(1) :
    PrismaRead([op |-> "getCategories"],
               Prisma_getCategories(prisma, symbolTable, failAt))

PrismaGetSymbolSets ==
  \E options \in SearchOptionsInputs, failAt \in OrmFaults(1) :
    PrismaRead([op |-> "getSymbolSets", options |-> options],
               Prisma_getSymbolSets(prisma, symbolSetTable, options, failAt))

PrismaSearchSymbolSets ==
  \E query \in SetQueries, options \in SearchOptionsInputs, failAt \in OrmFaults(1) :
    PrismaRead([op |-> "searchSymbolSets", query |-> query,
                options |-> options],
               Prisma_searchSymbolSets(prisma, symbolSetTable, query, options,
                                       failAt))

PrismaHealthCheck ==
  \E failAt \in OrmFaults(1) :
    PrismaRead([op |-> "healthCheck"], Prisma_healthCheck(prisma, failAt, now))

\* A write on the symbols table; out is one of the possible outcomes.
PrismaWrite(c, outcomes) ==
  /\ backend = "prisma"
  /\ nops < MaxOps
  /\ \E out \in outcomes :
       /\ result' = out.result
       /\ symbolTable' = out.store
       /\ nops' = IF out.store = symbolTable THEN nops ELSE nops + 1
  /\ call' = c
  /\ payload' = NoPayload
  /\ UNCHANGED <<backend, process, tasks, pool, csv, files, droppedClients, symbols, symbolSets, prisma, symbolSetTable, clock>>

PrismaCreateSymbol ==
  \E symbol \in SymbolInputs, failAt \in OrmFaults(1) :
    PrismaWrite([op |-> "createSymbol", id |-> symbol.id, symbol |-> symbol,
                 existed |-> Stored(symbol.id), at |-> now,
                 reached |-> (prisma # "null" /\ failAt = 0)],
                {Prisma_createSymbol(prisma, symbolTable, symbol, failAt, now)})

PrismaUpdateSymbol ==
  \E id \in UpdateIds, updates \in SymbolUpdates, failAt \in OrmFaults(2) :
    PrismaWrite([op |-> "updateSymbol", id |-> id, updates |-> updates,
                 existed |-> Stored(id), at |-> now,
                 reached |-> (prisma # "null" /\ failAt = 0)],
                {Prisma_updateSymbol(prisma, symbolTable, id, updates, failAt,
                                     now)})

PrismaDeleteSymbol ==
  \E id \in DeleteIds, cascade \in BOOLEAN :
   \E failAt \in {f \in FailPoints \cap OrmFaults(MaxFailAt) :
                    f <= Prisma_deleteCalls(symbolTable, id, cascade)} :
    PrismaWrite([op |-> "deleteSymbol", id |-> id, cascade |-> cascade,
                 existed |-> Stored(id), at |-> now,
                 reached |-> (prisma # "null" /\ failAt = 0)],
                Prisma_deleteSymbol(prisma, symbolTable, id, cascade, failAt,
                                    now))

\* A write on the symbol_sets table.
PrismaWriteSet(c, out) ==
  /\ backend = "prisma"
  /\ nops < MaxOps
  /\ result' = out.result
  /\ symbolSetTable' = out.store
  /\ nops' = IF out.store = symbolSetTable THEN nops ELSE nops + 1
  /\ call' = c
  /\ payload' = NoPayload
  /\ UNCHANGED <<backend, process, tasks, pool, csv, files, droppedClients, symbols, symbolSets, prisma, symbolTable, clock>>

PrismaCreateSymbolSet ==
  \E symbolSet \in SymbolSetInputs, failAt \in OrmFaults(1) :
    PrismaWriteSet([op |-> "createSymbolSet", id |-> symbolSet.id,
                    symbolSet |-> symbolSet,
                    existed |-> StoredSet(symbolSet.id), at |-> now,
                    reached |-> (prisma # "null" /\ failAt = 0)],
                   Prisma_createSymbolSet(prisma, symbolSetTable, symbolSet,
                                          failAt, now))

PrismaUpdateSymbolSet ==
  \E id \in SymbolSetIds, updates \in SymbolSetUpdates, failAt \in OrmFaults(2) :
    PrismaWriteSet([op |-> "updateSymbolSet", id |-> id, updates |-> updates,
                    existed |-> StoredSet(id), at |-> now,
                    reached |-> (prisma # "null" /\ failAt = 0)],
                   Prisma_updateSymbolSet(prisma, symbolSetTable, id, updates,
                                          failAt, now))

----------------------------------------------------------------------------
\* The get_symbol tool (SymbolsService.registerGetSymbol) over the in-memory
\* backend, the implementation under src that has getSymbol.

ToolIds == {"labyrinth", "missing", "", "  "}

\* String.prototype.trim on the texts the model hands to it: a blank text
\* becomes empty, the blank in front of a text is dropped.
TrimmedTexts ==
  {"labyrinth", "river", "delta", "moon", "related", "missing", "a", "b"}
trim(id) ==
  IF id \in {"", " ", "  "} THEN ""
  ELSE IF \E text \in TrimmedTexts : id = " " \o text
  THEN CHOOSE text \in TrimmedTexts : id = " " \o text
  ELSE id

\* get_symbol that reports a null payload as an error.
get_symbol_absentIsError(db, id) ==
  IF trim(id) = ""
  THEN [called |-> FALSE, result |-> NoResult,
        payload |-> [error |-> "Symbol ID cannot be empty"]]
  ELSE LET r == Demo_getSymbol(db, id)
       IN  IF ~r.success \/ r.data = Null
           THEN [called |-> TRUE, result |-> r,
                 payload |-> [error |-> "Internal error while retrieving symbol",
                              details |-> "Failed to get symbol"]]
           ELSE [called |-> TRUE, result |-> r,
                 payload |-> [found |-> (r.data # Null), symbol |-> r.data]]

get_symbol(db, id) ==
  IF trim(id) = ""
  THEN [called |-> FALSE, result |-> NoResult,
        payload |-> [error |-> "Symbol ID cannot be empty"]]
  ELSE LET r == Demo_getSymbol(db, id)
       IN  IF ~r.success
           THEN [called |-> TRUE, result |-> r,
                 payload |-> [error |-> "Internal error while retrieving symbol",
                              details |-> r.error.message]]
           ELSE [called |-> TRUE, result |-> r,
                 payload |-> [found |-> (r.data # Null), symbol |-> r.data]]

ToolGetSymbol ==
  \E id \in ToolIds :
    LET out == get_symbol(symbols, id)
    IN  /\ backend = "demo"
        /\ call' = IF out.called
                   THEN [op |-> "getSymbol", id |-> id, existed |-> Stored(id)]
                   ELSE NoCall
        /\ result' = out.result
        /\ payload' = Spread(out.payload, [tool |-> "get_symbol", id |-> id])
        /\ UNCHANGED <<backend, process, tasks, pool, csv, files, droppedClients, symbols, symbolSets, prisma, symbolTable,
                       symbolSetTable, clock, nops>>

----------------------------------------------------------------------------

Next ==
  \/ Tick
  \/ DemoGetSymbols
  \/ DemoGetSymbol
  \/ DemoSearchSymbols
  \/ DemoFilterByCategory
  \/ DemoGetCategories
  \/ DemoGetSymbolSets
  \/ DemoSearchSymbolSets
  \/ DemoHealthCheck
  \/ DemoCreateSymbol
  \/ DemoUpdateSymbol
  \/ DemoDeleteSymbol
  \/ DemoCreateSymbolSet
  \/ DemoUpdateSymbolSet
  \/ PrismaConnect
  \/ PrismaDisconnect
  \/ PrismaGetSymbols
  \/ PrismaSearchSymbols
  \/ PrismaFilterByCategory
  \/ PrismaGetCategories
  \/ PrismaGetSymbolSets
  \/ PrismaSearchSymbolSets
  \/ PrismaHealthCheck
  \/ PrismaCreateSymbol
  \/ PrismaUpdateSymbol
  \/ PrismaDeleteSymbol
  \/ PrismaCreateSymbolSet
  \/ PrismaUpdateSymbolSet
  \/ ToolGetSymbol

Spec == Init /\ [][Next]_vars

\* The steps that write a store or look one symbol up: the clock, the
\* connection, the create / update / delete operations and getSymbol.  The
\* list queries change no variable but call and result, so every store
\* transition of Spec is a transition of SpecCrud and conversely.
NextCrud ==
  \/ Tick
  \/ DemoGetSymbol
  \/ DemoCreateSymbol
  \/ DemoUpdateSymbol
  \/ DemoDeleteSymbol
  \/ DemoCreateSymbolSet
  \/ DemoUpdateSymbolSet
  \/ PrismaConnect
  \/ PrismaDisconnect
  \/ PrismaCreateSymbol
  \/ PrismaUpdateSymbol
  \/ PrismaDeleteSymbol
  \/ PrismaCreateSymbolSet
  \/ PrismaUpdateSymbolSet
  \/ ToolGetSymbol

SpecCrud == Init /\ [][NextCrud]_vars

----------------------------------------------------------------------------
\* The list queries over a store that no step changes.  The process starts
\* over one of the data sets of QueryStores: the DEMO_DATA payload that the
\* DemoDatabase constructor copies, or the rows the relational database
\* already holds when PrismaDatabase is constructed.

MaxSymbols == 3

Str_Delta == <<68, 101, 108, 116, 97>>
Str_rd == <<114, 32, 100>>

\* Symbols that tie on name, differ in the case of category, and match the
\* query "river" by name, by category only, or by description only.
QuerySymbols ==
  { [id |-> "river", name |-> Str_River, category |-> Str_flow,
     description |-> Str_demo, interpretations |-> NoObject,
     related_symbols |-> <<>>, properties |-> NoObject],
    [id |-> "river-2", name |-> Str_River, category |-> Str_Journey,
     description |-> Str_demo, interpretations |-> NoObject,
     related_symbols |-> <<>>, properties |-> NoObject],
    [id |-> "labyrinth", name |-> Str_Labyrinth, category |-> Str_journey,
     description |-> Str_riverPath, interpretations |-> NoObject,
     related_symbols |-> <<>>, properties |-> NoObject],
    [id |-> "delta", name |-> Str_Delta, category |-> Str_river,
     description |-> Str_demo, interpretations |-> NoObject,
     related_symbols |-> <<>>, properties |-> NoObject] }

\* Every arrangement of at most MaxSymbols of them.
QueryStores ==
  UNION {Perms(S) : S \in {T \in SUBSET QuerySymbols :
                              Cardinality(T) <= MaxSymbols}}

PageOptions ==
  { NoOptions, [limit |-> 1, offset |-> 1], [limit |-> 1, offset |-> 2],
    [limit |-> 2, offset |-> 1] }

SearchPages == { NoOptions, [limit |-> 1] }

QueryTexts == { Str_river, Str_rd }
QueryCategories == { Str_journey, Str_Journey, Str_nonexistent }

InitQuery ==
  /\ backend \in {"demo", "prisma"}
  /\ symbols \in {StampAll(s, 0) : s \in QueryStores}
  /\ symbolSets = StampAll(SeedSymbolSets, 0)
  /\ prisma = "null"
  /\ droppedClients = 0
  /\ symbolTable = Range(symbols)
  /\ symbolSetTable = Range(StampAll(SeedSymbolSets, 0))
  /\ clock = 0
  /\ nops = 0
  /\ call = NoCall
  /\ result = NoResult
  /\ payload = NoPayload
  /\ csv = NoCall
  /\ files = NoFile
  /\ process = NoProcess
  /\ tasks = {}
  /\ pool = NoPool

QueryGetSymbols ==
  \E options \in PageOptions, failAt \in OrmFaults(1) :
    \/ DemoRead([op |-> "getSymbols", options |-> options,
                 reached |-> TRUE],
                Demo_getSymbols(symbols, options))
    \/ PrismaRead([op |-> "getSymbols", options |-> options,
                   reached |-> (prisma # "null" /\ failAt = 0)],
                  Prisma_getSymbols(prisma, symbolTable, options, failAt))

QuerySearchSymbols ==
  \E query \in QueryTexts, options \in SearchPages, failAt \in OrmFaults(1) :
    \/ DemoRead([op |-> "searchSymbols", query |-> query,
                 options |-> options, reached |-> TRUE],
                Demo_searchSymbols(symbols, query, options))
    \/ PrismaRead([op |-> "searchSymbols", query |-> query,
                   options |-> options,
                   reached |-> (prisma # "null" /\ failAt = 0)],
                  Prisma_searchSymbols(prisma, symbolTable, query, options,
                                       failAt))

QueryFilterByCategory ==
  \E category \in QueryCategories, options \in SearchPages,
     failAt \in OrmFaults(1) :
    \/ DemoRead([op |-> "filterByCategory", category |-> category,
                 options |-> options, reached |-> TRUE],
                Demo_filterByCategory(symbols, category, options))
    \/ PrismaRead([op |-> "filterByCategory", category |-> category,
                   options |-> options,
                   reached |-> (prisma # "null" /\ failAt = 0)],
                  Prisma_filterByCategory(prisma, symbolTable, category,
                                          options, failAt))

NextQuery ==
  \/ PrismaConnect
  \/ PrismaDisconnect
  \/ QueryGetSymbols
  \/ QuerySearchSymbols
  \/ QueryFilterByCategory

SpecQuery == InitQuery /\ [][NextQuery]_vars

----------------------------------------------------------------------------
\* Vocabulary of the properties.

\* The stored symbols / symbol sets of the backend in use, as a set.
StoreOf(syms, rows) == IF backend = "demo" THEN Range(syms) ELSE rows

\* The stored record with the given id.
Lookup(S, id) == CHOOSE r \in S : r.id = id

IdsOf(S) == {r.id : r \in S}

\* The ids of an array, in array order.
IdSeq(s) == [i \in 1..Len(s) |-> s[i].id]

WithoutTimestamps(rec) ==
  [f \in DOMAIN rec \ {"created_at", "updated_at"} |-> rec[f]]

\* The call was answered by the store itself: the in-memory backend always,
\* the relational one when it has a client and no ORM call rejected.
Reached(c) == backend = "demo" \/ c.reached

IsEnvelope(r) ==
  \/ r.success = TRUE /\ DOMAIN r = {"success", "data"}
  \/ r.success = FALSE /\ DOMAIN r = {"success", "error"}

----------------------------------------------------------------------------
\* C1: every envelope returned by a query or CRUD operation of either
\* backend is success=true with data and no error, or success=false with an
\* error and no data.
C1_EnvelopeShape == result # NoResult => IsEnvelope(result)

\* A failure envelope returned by the relational backend after the store was
\* modified.
C1_Witness ==
  /\ backend = "prisma"
  /\ nops >= 1
  /\ call.op = "searchSymbols"
  /\ result # NoResult
  /\ result.success = FALSE
  /\ result.error.message = MsgOrmFailure

\* C2: createSymbol with an id that is already stored returns a failure
\* envelope and changes no stored record; the failure is "already exists"
\* whenever the call was answered by the store.
C2_DuplicateCreateRejected ==
  [][(call'.op = "createSymbol" /\ call'.existed) =>
       /\ result'.success = FALSE
       /\ symbols' = symbols
       /\ symbolTable' = symbolTable
       /\ Reached(call') =>
            result'.error.message = MsgSymbolAlreadyExists(call'.id)]_vars

C2_Witness ==
  /\ call.op = "createSymbol"
  /\ call.existed
  /\ nops >= 1
  /\ result.success = FALSE
  /\ result.error.message = MsgSymbolAlreadyExists(call.id)

\* C3: getSymbol(s.id) right after a successful createSymbol(s) returns
\* success with a record equal to s in every field but created_at and
\* updated_at.
C3_CreateThenGet ==
  [][(/\ call.op = "createSymbol"
      /\ result.success
      /\ call'.op = "getSymbol"
      /\ call'.id = call.id) =>
       /\ result'.success
       /\ result'.data # Null
       /\ WithoutTimestamps(result'.data) = call.symbol]_vars

\* getSymbol found a symbol that only a createSymbol can have stored, and no
\* other mutation has happened.
C3_Witness ==
  /\ call.op = "getSymbol"
  /\ call.id = "related"
  /\ nops = 1
  /\ result.success
  /\ result.data # Null
  /\ WithoutTimestamps(result.data) \in SymbolInputs

\* C4: updateSymbol of an id that is not stored fails with "not found" and
\* changes nothing; of a stored id it returns the stored record with the
\* supplied fields replaced, the other fields (id, created_at) kept and
\* updated_at set to the time of the call, and touches no other record.
C4_UpdateMerges ==
  [][(call'.op = "updateSymbol" /\ Reached(call')) =>
       IF ~call'.existed
       THEN /\ result' = Fail(MsgSymbolNotFound(call'.id))
            /\ symbols' = symbols
            /\ symbolTable' = symbolTable
       ELSE LET before == StoreOf(symbols, symbolTable)
                after == StoreOf(symbols', symbolTable')
                old == Lookup(before, call'.id)
                new == Lookup(after, call'.id)
            IN  /\ result' = Ok(new)
                /\ IdSeq(symbols') = IdSeq(symbols)
                /\ after \ {new} = before \ {old}
                /\ DOMAIN new = DOMAIN old
                /\ \A f \in DOMAIN old :
                     new[f] = IF f \in DOMAIN call'.updates
                              THEN call'.updates[f]
                              ELSE IF f = "updated_at" THEN call'.at
                              ELSE old[f]]_vars

C4_Witness ==
  /\ call.op = "updateSymbol"
  /\ call.existed
  /\ call.updates # NoUpdates
  /\ result.success
  /\ result.data.name = Str_Aardvark
  /\ result.data.updated_at > result.data.created_at

\* C5: deleteSymbol of an id that is not stored returns a failure envelope
\* for either value of cascade and changes no stored record; the failure is
\* "not found" whenever the call was answered by the store.
C5_DeleteMissingRejected ==
  [][(call'.op = "deleteSymbol" /\ ~call'.existed) =>
       /\ result'.success = FALSE
       /\ symbols' = symbols
       /\ symbolTable' = symbolTable
       /\ Reached(call') =>
            result'.error.message = MsgSymbolNotFound(call'.id)]_vars

C5_Witness ==
  /\ call.op = "deleteSymbol"
  /\ ~call.existed
  /\ call.cascade
  /\ result.success = FALSE
  /\ result.error.message = MsgSymbolNotFound(call.id)

\* C6: a successful deleteSymbol(X, cascade=true) removes X, removes X from
\* every related_symbols list, and sets updated_at of every symbol whose
\* list contained X to the time of the delete.
C6_CascadeRefreshesUpdatedAt ==
  [][(call'.op = "deleteSymbol" /\ call'.cascade /\ result'.success) =>
       LET before == StoreOf(symbols, symbolTable)
           after == StoreOf(symbols', symbolTable')
       IN  /\ call'.id \notin IdsOf(after)
           /\ \A r \in after : call'.id \notin Range(r.related_symbols)
           /\ \A old \in before :
                (old.id # call'.id /\ call'.id \in Range(old.related_symbols))
                  => Lookup(after, old.id).updated_at = call'.at]_vars

\* C7: getSymbol returns success with the stored symbol, or success with
\* data = null when the id is not stored; the get_symbol tool then answers
\* found = false and no error.
C7_GetSymbolAbsenceIsNotFailure ==
  call.op = "getSymbol" =>
    /\ result.success
    /\ result.data = IF call.existed
                     THEN Lookup(StoreOf(symbols, symbolTable), call.id)
                     ELSE Null
    /\ payload # NoPayload =>
         /\ DOMAIN payload = {"tool", "id", "found", "symbol"}
         /\ payload.found = call.existed
         /\ payload.symbol = result.data

C7_Witness ==
  /\ call.op = "getSymbol"
  /\ ~call.existed
  /\ nops >= 1
  /\ result = Ok(Null)
  /\ payload # NoPayload
  /\ payload.found = FALSE

\* C8: no two stored Symbols and no two stored SymbolSets share an id, and
\* no operation changes the id of a stored record: an update keeps the ids
\* as they are, a delete only removes the deleted id, a create only adds the
\* created id.
UniqueIds ==
  /\ \A i, j \in 1..Len(symbols) : symbols[i].id = symbols[j].id => i = j
  /\ \A i, j \in 1..Len(symbolSets) :
       symbolSets[i].id = symbolSets[j].id => i = j
  /\ \A r, q \in symbolTable : r.id = q.id => r = q
  /\ \A r, q \in symbolSetTable : r.id = q.id => r = q

IdsStable ==
  /\ IdSeq(symbolSets') \in {IdSeq(symbolSets)} \cup
       {Append(IdSeq(symbolSets), id) : id \in {call'.id}}
  /\ IdsOf(symbolSetTable) \subseteq IdsOf(symbolSetTable')
  /\ IdsOf(symbolSetTable') \subseteq IdsOf(symbolSetTable) \cup {call'.id}
  /\ call'.op \in {"updateSymbol", "updateSymbolSet"} =>
       /\ IdSeq(symbols') = IdSeq(symbols)
       /\ IdSeq(symbolSets') = IdSeq(symbolSets)
       /\ IdsOf(symbolTable') = IdsOf(symbolTable)
       /\ IdsOf(symbolSetTable') = IdsOf(symbolSetTable)
  /\ call'.op = "deleteSymbol" =>
       /\ IdSeq(symbols') \in {IdSeq(symbols)} \cup
            {splice1(IdSeq(symbols), i) :
               i \in {k \in 1..Len(symbols) : symbols[k].id = call'.id}}
       /\ IdsOf(symbolTable') \subseteq IdsOf(symbolTable)
       /\ IdsOf(symbolTable) \ IdsOf(symbolTable') \subseteq {call'.id}
  /\ call'.op = "createSymbol" =>
       /\ IdSeq(symbols') \in
            {IdSeq(symbols), Append(IdSeq(symbols), call'.id)}
       /\ IdsOf(symbolTable) \subseteq IdsOf(symbolTable')
       /\ IdsOf(symbolTable') \subseteq IdsOf(symbolTable) \cup {call'.id}

C8_IdsUniqueAndStable ==
  [](UniqueIds) /\ [][(symbols' # symbols \/ symbolSets' # symbolSets
                        \/ symbolTable' # symbolTable
                        \/ symbolSetTable' # symbolSetTable) => IdsStable]_vars

\* A second create of a stored symbol-set id was attempted after another
\* set had been created.
C8_Witness ==
  /\ call.op = "createSymbolSet"
  /\ call.existed
  /\ Cardinality(IdsOf(StoreOf(symbolSets, symbolSetTable))) = 2
  /\ result.success = FALSE

\* C9: every stored Symbol and SymbolSet has updated_at >= created_at; a
\* stored record keeps its created_at and its updated_at never decreases.
TimestampsOrdered ==
  \A r \in Range(symbols) \cup Range(symbolSets) \cup symbolTable
           \cup symbolSetTable : r.updated_at >= r.created_at

TimestampsMonotone(before, after) ==
  \A old \in before, new \in after :
    old.id = new.id =>
      /\ new.created_at = old.created_at
      /\ new.updated_at >= old.updated_at

C9_Timestamps ==
  [](TimestampsOrdered) /\
  [][/\ symbols' # symbols =>
          TimestampsMonotone(Range(symbols), Range(symbols'))
     /\ symbolSets' # symbolSets =>
          TimestampsMonotone(Range(symbolSets), Range(symbolSets'))
     /\ symbolTable' # symbolTable =>
          TimestampsMonotone(symbolTable, symbolTable')
     /\ symbolSetTable' # symbolSetTable =>
          TimestampsMonotone(symbolSetTable, symbolSetTable')]_vars

C9_Witness ==
  /\ call.op \in {"updateSymbol", "updateSymbolSet"}
  /\ result.success
  /\ result.data.created_at = 0
  /\ result.data.updated_at = 1

\* C10: getSymbols({limit, offset}) returns at most limit symbols, the ones
\* at positions offset .. offset+limit-1 of the store sorted by name
\* ascending.
C10_GetSymbolsSortedByName ==
  (call.op = "getSymbols" /\ result.success) =>
    /\ Len(result.data) <= OptLimit(call.options)
    /\ result.data \in
         {TakeSkip(s, call.options) :
            s \in OrderByName(StoreOf(symbols, symbolTable))}

\* C11: on an unchanged store with more than 2n symbols, the pages
\* getSymbols({limit: n, offset: k}) and getSymbols({limit: n, offset: k+n})
\* share no id, and each is the matching half of
\* getSymbols({limit: 2n, offset: k}).
PageIds(r) == {r.data[i].id : i \in 1..Len(r.data)}

C11_PagesDisjoint ==
  [][(/\ call.op = "getSymbols" /\ call'.op = "getSymbols"
      /\ result.success /\ result'.success
      /\ Cardinality(StoreOf(symbols, symbolTable))
           > 2 * OptLimit(call'.options)) =>
       LET n == OptLimit(call'.options)
           k == OptOffset(call'.options)
       IN  /\ (OptLimit(call.options) = n /\ k = OptOffset(call.options) + n)
                => PageIds(result) \cap PageIds(result') = {}
           /\ (OptLimit(call.options) = 2 * n /\ k = OptOffset(call.options))
                => result'.data = slice(result.data, 0, n)
           /\ (OptLimit(call.options) = 2 * n
                 /\ k = OptOffset(call.options) + n)
                => result'.data = slice(result.data, n, 2 * n)]_vars

\* C12: for a non-empty query, every record returned by searchSymbols is
\* also returned by getSymbols() on the same backend and data, and one of
\* its fields name, description, category contains the query by itself,
\* ignoring case.
GetSymbolsResult ==
  IF backend = "demo"
  THEN Range(Demo_getSymbols(symbols, NoOptions).data)
  ELSE UNION {Range(e.data) :
                e \in Prisma_getSymbols("client", symbolTable, NoOptions, 0)}

FieldContains(field, q) ==
  field # NullStr /\ includes(toLowerCase(field), toLowerCase(q))

C12_SearchWithinFields ==
  (call.op = "searchSymbols" /\ result.success /\ call.query # <<>>) =>
    \A i \in 1..Len(result.data) :
      /\ result.data[i] \in GetSymbolsResult
      /\ \/ FieldContains(result.data[i].name, call.query)
         \/ FieldContains(result.data[i].description, call.query)
         \/ FieldContains(result.data[i].category, call.query)

\* C13: searchSymbols returns its matches with every name match before
\* every category-only match, every category-only match before every
\* description-only match, and equal ranks ordered by name ascending.
SearchRank(symbol, q) ==
  IF FieldContains(symbol.name, q) THEN 1
  ELSE IF FieldContains(symbol.category, q) THEN 2
  ELSE 3

C13_SearchRanked ==
  (call.op = "searchSymbols" /\ result.success) =>
    \A i, j \in 1..Len(result.data) :
      i < j =>
        LET ri == SearchRank(result.data[i], call.query)
            rj == SearchRank(result.data[j], call.query)
        IN  \/ ri < rj
            \/ ri = rj /\ ~StrLess(result.data[j].name, result.data[i].name)

\* C14: filterByCategory(c) answered by the store returns success with
\* exactly the stored symbols, within limit and offset, whose category
\* equals c, ignoring case in the in-memory backend and not in the
\* relational one; with no such symbol it returns success with an empty
\* list.
CategoryEquals(stored, c) ==
  IF backend = "demo" THEN toLowerCase(stored) = toLowerCase(c)
  ELSE stored = c

Max(a, b) == IF a >= b THEN a ELSE b

C14_FilterByCategoryExact ==
  call.op = "filterByCategory" =>
    LET matching == {r \in StoreOf(symbols, symbolTable) :
                       CategoryEquals(r.category, call.category)}
        window == Max(0, Min(OptLimit(call.options),
                             Cardinality(matching)
                               - OptOffset(call.options)))
    IN  /\ call.reached => result.success
        /\ result.success =>
             /\ Range(result.data) \subseteq matching
             /\ Len(result.data) = window
             /\ Cardinality(Range(result.data)) = Len(result.data)

\* The relational backend returned the one symbol of category journey and
\* left out the stored symbol of category Journey.
C14_Witness ==
  /\ call.op = "filterByCategory"
  /\ backend = "prisma"
  /\ result.success
  /\ call.category = Str_journey
  /\ \E r \in symbolTable : r.category = Str_Journey
  /\ Len(result.data) = 1
  /\ result.data[1].category = Str_journey

\* C15: on the relational backend every query and CRUD operation invoked
\* while this.prisma is null, before any connect() or after a disconnect(),
\* returns the failure envelope "Database not connected".
DataAccessOps ==
  {"getSymbols", "searchSymbols", "filterByCategory", "getCategories",
   "getSymbolSets", "searchSymbolSets", "healthCheck", "createSymbol",
   "updateSymbol", "deleteSymbol", "createSymbolSet", "updateSymbolSet"}

C15_NotConnected ==
  (backend = "prisma" /\ prisma = "null" /\ call.op \in DataAccessOps) =>
    result = Fail(MsgNotConnected)

\* healthCheck was refused after the store had been written, hence after a
\* connect() and a disconnect().
C15_Witness ==
  /\ backend = "prisma"
  /\ prisma = "null"
  /\ nops >= 1
  /\ call.op = "healthCheck"
  /\ result = Fail(MsgNotConnected)

\* C16: disconnect() on a backend that holds no client does nothing and
\* does not fail; connect() on a backend that already holds a client leaves
\* exactly one client open, and after a disconnect() no client opened by the
\* backend is still open.
OpenClientCount == droppedClients + (IF prisma # "null" THEN 1 ELSE 0)

C16_LifecycleIdempotent ==
  [][/\ (call'.op = "disconnect" /\ ~call'.hadClient) =>
          /\ ~call'.threw
          /\ prisma' = prisma
          /\ droppedClients' = droppedClients
          /\ symbolTable' = symbolTable
          /\ symbolSetTable' = symbolSetTable
     /\ (call'.op = "connect" /\ call'.hadClient /\ ~call'.threw) =>
          OpenClientCount' = 1
     /\ (call'.op = "disconnect" /\ call # call') =>
          OpenClientCount' = 0]_vars

\* C17: from the same data the in-memory backend and the connected,
\* fault-free relational backend answer every Data-Access operation with
\* the same success flag and the same records in the same order, apart from
\* timestamp values.  Stated for the list queries over the unchanged store
\* of SpecQuery, where symbols and symbolTable hold the same records.
WithoutTimestampsAll(r) ==
  [success |-> r.success,
   data |-> [i \in 1..Len(r.data) |-> WithoutTimestamps(r.data[i])]]

DemoAnswer(c) ==
  IF c.op = "getSymbols" THEN Demo_getSymbols(symbols, c.options)
  ELSE IF c.op = "searchSymbols"
  THEN Demo_searchSymbols(symbols, c.query, c.options)
  ELSE Demo_filterByCategory(symbols, c.category, c.options)

PrismaAnswers(c) ==
  IF c.op = "getSymbols"
  THEN Prisma_getSymbols("client", symbolTable, c.options, 0)
  ELSE IF c.op = "searchSymbols"
  THEN Prisma_searchSymbols("client", symbolTable, c.query, c.options, 0)
  ELSE Prisma_filterByCategory("client", symbolTable, c.category,
                               c.options, 0)

C17_BackendsInterchangeable ==
  (/\ call.op \in {"getSymbols", "searchSymbols", "filterByCategory"}
   /\ call.reached) =>
    IF backend = "demo"
    THEN WithoutTimestampsAll(result) \in
           {WithoutTimestampsAll(e) : e \in PrismaAnswers(call)}
    ELSE WithoutTimestampsAll(result) = WithoutTimestampsAll(DemoAnswer(call))

----------------------------------------------------------------------------
\* CsvService (src/src/services/CsvService.ts) over either backend.
\*
\* A CSV row is the record csv-parser hands to the data handler: every cell
\* is text.  The JSON cells are texts out of JsonTexts, the related_symbols
\* cell is the sequence of its comma separated pieces.

\* What JSON.parse makes of the texts the rows carry; every other text is
\* not JSON and makes it throw.
Json_empty == "{}"
Json_dream == "{\"dream\":\"passage\"}"
Json_broken == "{bad"
JSONparse(str) ==
  IF str = Json_empty THEN [ok |-> TRUE, value |-> NoObject]
  ELSE IF str = Json_dream THEN [ok |-> TRUE, value |-> [dream |-> "passage"]]
  ELSE [ok |-> FALSE]

\* str || "{}"
OrEmptyObject(str) == IF str = "" THEN Json_empty ELSE str

\* Ids that /^[a-zA-Z0-9_-]+$/ accepts, among the ids the rows carry.
IdPattern == {"labyrinth", "river", "delta", "moon", "related", "missing"}

MsgInvalidJson(field) == <<"Invalid JSON format in", field, "field">>
MsgZodError(field) == <<"ZodError", field>>
MsgFileNotFound == <<"File", "not", "found">>
MsgNoSymbolsFound == <<"No symbols found matching the criteria">>
MsgWriteFailed == <<"EACCES", "permission", "denied">>

\* str.split(",").map(s => s.trim()).filter(s => s.length > 0)
Csv_splitRelated(pieces) ==
  SelectSeq([i \in 1..Len(pieces) |-> trim(pieces[i])],
            LAMBDA piece : piece # "")

\* CsvSymbolSchema.parse: the object schema visits the keys in order; a
\* transform that throws ends the parse at once with its own Error, the
\* issues of the string checks are thrown together at the end.
CsvSymbolSchema_parse(data) ==
  LET interpretations == JSONparse(OrEmptyObject(data.interpretations))
      properties == JSONparse(OrEmptyObject(data.properties))
  IN  IF ~interpretations.ok
      THEN [ok |-> FALSE, error |-> MsgInvalidJson("interpretations")]
      ELSE IF ~properties.ok
      THEN [ok |-> FALSE, error |-> MsgInvalidJson("properties")]
      ELSE IF data.id = "" \/ data.id \notin IdPattern
      THEN [ok |-> FALSE, error |-> MsgZodError("id")]
      ELSE IF Len(data.name) < 1 \/ Len(data.name) > 255
      THEN [ok |-> FALSE, error |-> MsgZodError("name")]
      ELSE IF Len(data.category) < 1 \/ Len(data.category) > 100
      THEN [ok |-> FALSE, error |-> MsgZodError("category")]
      ELSE IF Len(data.description) < 1 \/ Len(data.description) > 2000
      THEN [ok |-> FALSE, error |-> MsgZodError("description")]
      ELSE [ok |-> TRUE,
            data |-> [id |-> data.id, name |-> data.name,
                      category |-> data.category,
                      description |-> data.description,
                      interpretations |-> interpretations.value,
                      related_symbols |->
                        Csv_splitRelated(data.related_symbols),
                      properties |-> properties.value]]

\* this.database: the calls CsvService makes, on the backend constructed.
\* The relational backend answers without ORM faults here.
Db_ids(b, store) ==
  IF b = "demo" THEN {store[i].id : i \in 1..Len(store)}
  ELSE {r.id : r \in store}
Db_getSymbols(b, client, store, options) ==
  IF b = "demo" THEN {Demo_getSymbols(store, options)}
  ELSE Prisma_getSymbols(client, store, options, 0)
Db_filterByCategory(b, client, store, category, options) ==
  IF b = "demo" THEN {Demo_filterByCategory(store, category, options)}
  ELSE Prisma_filterByCategory(client, store, category, options, 0)
Db_createSymbol(b, client, store, symbol, t) ==
  IF b = "demo" THEN Demo_createSymbol(store, symbol, t)
  ELSE Prisma_createSymbol(client, store, symbol, 0, t)

\* const { skipDuplicates = true, maxRows } = options
OptSkipDuplicates(options) ==
  IF "skipDuplicates" \in DOMAIN options THEN options.skipDuplicates ELSE TRUE
OptMaxRows(options) ==
  IF "maxRows" \in DOMAIN options THEN options.maxRows ELSE 0

NewImportResult ==
  [success |-> TRUE, processed |-> 0, created |-> 0, skipped |-> 0,
   errors |-> <<>>]

\* PushError that leaves result.errors as it was.
PushError_dropped(res, symbolData, message) == res

\* result.errors.push({ row, error, data })
PushError(res, symbolData, message) ==
  [res EXCEPT !.errors =
     Append(@, [row |-> symbolData._rowNumber, error |-> message,
                data |-> symbolData])]

\* What the loop did with one row: stored says whether the id of the row
\* was in the store when the row was reached, step names the branch taken.
RowTrace(symbolData, valid, stored, step) ==
  [row |-> symbolData._rowNumber, valid |-> valid, stored |-> stored,
   step |-> step]

\* One turn of the for loop of importSymbols.
\* Csv_skipRow that leaves the counter as it was.
Csv_skipRow_uncounted(counted) == counted

\* result.skipped++ of the duplicate branch.
Csv_skipRow(counted) == [counted EXCEPT !.skipped = @ + 1]

Csv_processRow(b, client, symbolData, store, res, skipDuplicates, t) ==
  LET counted == [res EXCEPT !.processed = @ + 1]
      parsed == CsvSymbolSchema_parse(symbolData)
  IN  IF ~parsed.ok
      THEN {[store |-> store,
             result |-> PushError(counted, symbolData, parsed.error),
             trace |-> RowTrace(symbolData, FALSE, FALSE, "threw")]}
      ELSE
        LET validatedData == parsed.data
            stored == validatedData.id \in Db_ids(b, store)
            Turn(existingSymbol) ==
              LET symbolExists ==
                    /\ existingSymbol.success
                    /\ \E i \in 1..Len(existingSymbol.data) :
                         existingSymbol.data[i].id = validatedData.id
              IN  IF symbolExists /\ ~skipDuplicates
                  THEN [store |-> store,
                        result |-> PushError(counted, symbolData,
                                     MsgSymbolAlreadyExists(validatedData.id)),
                        trace |-> RowTrace(symbolData, TRUE, stored,
                                           "duplicateError")]
                  ELSE IF symbolExists /\ skipDuplicates
                  THEN [store |-> store,
                        result |-> Csv_skipRow(counted),
                        trace |-> RowTrace(symbolData, TRUE, stored,
                                           "skipped")]
                  ELSE
                    LET createResult ==
                          Db_createSymbol(b, client, store, validatedData, t)
                    IN  IF createResult.result.success
                        THEN [store |-> createResult.store,
                              result |-> [counted EXCEPT !.created = @ + 1],
                              trace |-> RowTrace(symbolData, TRUE, stored,
                                                 "created")]
                        ELSE [store |-> createResult.store,
                              result |-> PushError(counted, symbolData,
                                           createResult.result.error.message),
                              trace |-> RowTrace(symbolData, TRUE, stored,
                                                 "createFailed")]
        IN  {Turn(existingSymbol) :
               existingSymbol \in
                 Db_getSymbols(b, client, store, [limit |-> 1])}

\* for (const symbolData of symbols) { ... } from row i on; every outcome
\* the backend allows, with the trace of the rows.
RECURSIVE Csv_processRows(_, _, _, _, _, _, _, _, _)
Csv_processRows(b, client, rows, i, store, res, log, skipDuplicates, t) ==
  IF i > Len(rows)
  THEN {[store |-> store,
         result |-> [res EXCEPT !.success = (res.errors = <<>>)],
         log |-> log]}
  ELSE UNION
         {Csv_processRows(b, client, rows, i + 1, turn.store, turn.result,
                          Append(log, turn.trace), skipDuplicates, t) :
            turn \in Csv_processRow(b, client, rows[i], store, res,
                                    skipDuplicates, t)}

\* The data handler: symbols.push({ ...data, _rowNumber }) up to maxRows.
Csv_readRows(file, maxRows) ==
  LET kept == IF maxRows # 0 THEN Min(maxRows, Len(file.rows))
              ELSE Len(file.rows)
  IN  [n \in 1..kept |-> Spread(file.rows[n], [_rowNumber |-> n])]

Csv_importSymbols(b, client, store, file, options, t) ==
  IF ~file.exists
  THEN {[store |-> store,
         result |-> [success |-> FALSE, processed |-> 0, created |-> 0,
                     skipped |-> 0,
                     errors |-> <<[row |-> 0, error |-> MsgFileNotFound]>>],
         log |-> <<>>]}
  ELSE Csv_processRows(b, client,
                       Csv_readRows(file, OptMaxRows(options)), 1, store,
                       NewImportResult, <<>>, OptSkipDuplicates(options), t)

\* JSON.stringify(value) and related_symbols.join(", "): the cell text is
\* determined by the value written.
JSONstringify(value) ==
  IF DOMAIN value = {} THEN Json_empty
  ELSE IF DOMAIN value = {"dream"} /\ value.dream = "passage" THEN Json_dream
  ELSE "{...}"

\* id.split(","): an id that holds a comma falls into its pieces.
CommaPieces(id) == IF id = "a,b" THEN <<"a", "b">> ELSE <<id>>

\* related_symbols.join(", "), as the pieces between the commas of the cell:
\* every id after the first starts with the blank of the separator.
RECURSIVE Csv_joinRelated(_)
Csv_joinRelated(ids) ==
  IF ids = <<>> THEN <<>>
  ELSE IF Len(ids) = 1 THEN CommaPieces(ids[1])
  ELSE LET front == Csv_joinRelated(SubSeq(ids, 1, Len(ids) - 1))
           last == CommaPieces(ids[Len(ids)])
       IN  front \o <<" " \o Head(last)>> \o Tail(last)

\* symbols.map((symbol) => ({ ... })) of exportSymbols.
Csv_record(symbol) ==
  [id |-> symbol.id, name |-> symbol.name,
   category |-> OrEmpty(symbol.category),
   description |-> OrEmpty(symbol.description),
   interpretations |-> JSONstringify(symbol.interpretations),
   related_symbols |-> Csv_joinRelated(symbol.related_symbols),
   properties |-> JSONstringify(symbol.properties)]

\* The symbols exportSymbols obtains: by ids, by category, or all.
Csv_exportFetch(b, client, store, options) ==
  IF "symbolIds" \in DOMAIN options /\ Len(options.symbolIds) > 0
  THEN {IF r.success
        THEN SelectSeq(r.data,
                       LAMBDA s : \E k \in 1..Len(options.symbolIds) :
                                    options.symbolIds[k] = s.id)
        ELSE <<>> :
          r \in Db_getSymbols(b, client, store, [limit |-> 10000])}
  ELSE IF "category" \in DOMAIN options /\ options.category # <<>>
  THEN {IF r.success THEN r.data ELSE <<>> :
          r \in Db_filterByCategory(b, client, store, options.category,
                                    [limit |-> 10000])}
  ELSE {IF r.success THEN r.data ELSE <<>> :
          r \in Db_getSymbols(b, client, store, [limit |-> 10000])}

\* Csv_exportSymbols that writes the header-only file for an empty set.
Csv_exportSymbols_writeEmpty(b, client, store, options, file, writeFails) ==
  {IF writeFails
   THEN [file |-> file, symbols |-> fetched,
         result |-> [success |-> FALSE, exported |-> 0,
                     filePath |-> options.filePath, error |-> MsgWriteFailed]]
   ELSE [file |-> [exists |-> TRUE,
                   rows |-> [i \in 1..Len(fetched) |-> Csv_record(fetched[i])]],
         symbols |-> fetched,
         result |-> [success |-> TRUE, exported |-> Len(fetched),
                     filePath |-> options.filePath]] :
     fetched \in Csv_exportFetch(b, client, store, options)}

Csv_exportSymbols(b, client, store, options, file, writeFails) ==
  {IF Len(fetched) = 0
   THEN [file |-> file, symbols |-> fetched,
         result |-> [success |-> FALSE, exported |-> 0,
                     filePath |-> options.filePath,
                     error |-> MsgNoSymbolsFound]]
   ELSE IF writeFails
   THEN [file |-> file, symbols |-> fetched,
         result |-> [success |-> FALSE, exported |-> 0,
                     filePath |-> options.filePath, error |-> MsgWriteFailed]]
   ELSE [file |-> [exists |-> TRUE,
                   rows |-> [i \in 1..Len(fetched) |-> Csv_record(fetched[i])]],
         symbols |-> fetched,
         result |-> [success |-> TRUE, exported |-> Len(fetched),
                     filePath |-> options.filePath]] :
     fetched \in Csv_exportFetch(b, client, store, options)}

\* Rows of the files handed to importSymbols.
RowLabyrinth ==
  [id |-> "labyrinth", name |-> Str_Labyrinth, category |-> Str_journey,
   description |-> Str_demo, interpretations |-> Json_empty,
   related_symbols |-> <<>>, properties |-> Json_empty]
RowRiver ==
  [id |-> "river", name |-> Str_River, category |-> Str_flow,
   description |-> Str_updated, interpretations |-> "",
   related_symbols |-> <<"labyrinth">>, properties |-> Json_empty]
RowDelta ==
  [id |-> "delta", name |-> Str_Delta, category |-> Str_test,
   description |-> Str_demo, interpretations |-> Json_dream,
   related_symbols |-> <<"river", "  ", "labyrinth">>,
   properties |-> ""]
RowBrokenJson ==
  [id |-> "moon", name |-> Str_Related, category |-> Str_test,
   description |-> Str_demo, interpretations |-> Json_empty,
   related_symbols |-> <<>>, properties |-> Json_broken]
RowBadId ==
  [id |-> "bad id", name |-> Str_Related, category |-> Str_test,
   description |-> Str_demo, interpretations |-> Json_empty,
   related_symbols |-> <<>>, properties |-> Json_empty]
\* The files handed to importSymbols; NoFile is a path that does not exist.
CsvFile(rows) == [exists |-> TRUE, rows |-> rows]
CsvFiles ==
  { NoFile,
    CsvFile(<<RowLabyrinth>>),
    CsvFile(<<RowRiver, RowDelta>>),
    CsvFile(<<RowBrokenJson, RowDelta>>),
    CsvFile(<<RowBadId, RowRiver>>),
    CsvFile(<<RowDelta, RowDelta>>),
    CsvFile(<<RowLabyrinth, RowBrokenJson>>) }

ImportOptionsInputs ==
  { NoOptions, [skipDuplicates |-> FALSE],
    [skipDuplicates |-> TRUE, maxRows |-> 1] }

ExportOptionsInputs ==
  { [filePath |-> "out.csv"],
    [filePath |-> "out.csv", category |-> Str_nonexistent],
    [filePath |-> "out.csv", category |-> Str_flow],
    [filePath |-> "out.csv", symbolIds |-> <<"river", "missing">>],
    [filePath |-> "out.csv", symbolIds |-> <<"missing">>] }

Store == IF backend = "demo" THEN symbols ELSE symbolTable

\* importSymbols(filePath, options) of the file found at filePath.
CsvImport(file, options) ==
  \E out \in Csv_importSymbols(backend, prisma, Store, file, options, now) :
    /\ out.store # Store => nops < MaxOps
    /\ csv' = [op |-> "importSymbols", file |-> file, options |-> options,
               result |-> out.result, log |-> out.log]
    /\ symbols' = IF backend = "demo" THEN out.store ELSE symbols
    /\ symbolTable' = IF backend = "demo" THEN symbolTable ELSE out.store
    /\ nops' = IF out.store # Store THEN nops + 1 ELSE nops
    /\ UNCHANGED <<backend, process, tasks, pool, files, droppedClients, symbolSets, prisma,
                   symbolSetTable, clock, call, result, payload>>

CsvImportSymbols ==
  \E file \in CsvFiles, options \in ImportOptionsInputs :
    CsvImport(file, options)

CsvExportSymbols ==
  \E options \in ExportOptionsInputs, writeFails \in BOOLEAN :
    \E out \in Csv_exportSymbols(backend, prisma, Store, options, files,
                                 writeFails) :
      /\ csv' = [op |-> "exportSymbols", options |-> options,
                 result |-> out.result, symbols |-> out.symbols]
      /\ files' = IF out.result.success
                  THEN [exists |-> TRUE, rows |-> out.file.rows,
                        source |-> [symbols |-> out.symbols,
                                    options |-> options]]
                  ELSE out.file
      /\ UNCHANGED <<backend, process, tasks, pool, droppedClients, symbols, symbolSets, prisma,
                     symbolTable, symbolSetTable, clock, nops, call, result,
                     payload>>

NextCsv ==
  \/ Tick
  \/ PrismaConnect
  \/ PrismaDisconnect
  \/ CsvImportSymbols
  \/ CsvExportSymbols

SpecCsv == Init /\ [][NextCsv]_vars

----------------------------------------------------------------------------
\* The errors entries of an import result that carry a row number.
ErrorsOfRow(res, row) ==
  {k \in 1..Len(res.errors) : res.errors[k].row = row}

\* C18: during importSymbols, a valid row whose id is stored when the row
\* is reached is, with skipDuplicates, counted in skipped without a call of
\* createSymbol and without an errors entry; without skipDuplicates it is
\* recorded in errors and nothing is created for it.
C18_StoredIdsAreDuplicates ==
  csv.op = "importSymbols" =>
    \A k \in 1..Len(csv.log) :
      LET turn == csv.log[k]
      IN  turn.valid /\ turn.stored =>
            IF OptSkipDuplicates(csv.options)
            THEN /\ turn.step = "skipped"
                 /\ ErrorsOfRow(csv.result, turn.row) = {}
            ELSE /\ turn.step \in {"duplicateError", "createFailed"}
                 /\ ErrorsOfRow(csv.result, turn.row) # {}

CountSteps(log, steps) ==
  Cardinality({k \in 1..Len(log) : log[k].step \in steps})

\* C19: importSymbols of an existing file adds exactly one errors entry,
\* with the number of the row, for every row that fails validation or whose
\* createSymbol fails, goes on to every later row, and resolves with the
\* aggregate of all rows.
C19_RowFailuresCollected ==
  csv.op = "importSymbols" /\ csv.file.exists =>
    LET rows == Csv_readRows(csv.file, OptMaxRows(csv.options))
        res == csv.result
    IN  /\ Len(csv.log) = Len(rows)
        /\ res.processed = Len(rows)
        /\ \A k \in 1..Len(rows) :
             /\ csv.log[k].row = k
             /\ Cardinality(ErrorsOfRow(res, k)) =
                  (IF csv.log[k].step \in
                        {"threw", "createFailed", "duplicateError"}
                   THEN 1 ELSE 0)
        /\ res.created = CountSteps(csv.log, {"created"})
        /\ res.skipped = CountSteps(csv.log, {"skipped"})
        /\ Len(res.errors) =
             CountSteps(csv.log, {"threw", "createFailed", "duplicateError"})
        /\ res.success = (res.errors = <<>>)

\* A file whose first row carries malformed JSON and whose second row was
\* created; and one whose first row failed in createSymbol.
C19_Witness ==
  /\ csv.op = "importSymbols"
  /\ csv.file.exists
  /\ Len(csv.log) = 2
  /\ csv.log[1].step = "threw"
  /\ csv.file.rows[1].properties = Json_broken
  /\ csv.log[2].step = "created"
  /\ csv.result.created = 1
  /\ Len(csv.result.errors) = 1

\* C20: exportSymbols that obtained no symbol, because none matched or
\* because the backend answered with a failure, returns success false,
\* exported 0 and the error No symbols found matching the criteria, and
\* leaves the file as it was.
C20_EmptyExportFails ==
  [][ (csv' # csv \/ files' # files) /\ csv'.op = "exportSymbols"
        /\ Len(csv'.symbols) = 0
      => /\ csv'.result = [success |-> FALSE, exported |-> 0,
                           filePath |-> csv'.options.filePath,
                           error |-> MsgNoSymbolsFound]
         /\ files' = files ]_vars

\* An export on the relational backend without a client: the backend call
\* failed and the export reported that no symbols were found.
C20_Witness ==
  /\ csv.op = "exportSymbols"
  /\ backend = "prisma"
  /\ prisma = "null"
  /\ "category" \notin DOMAIN csv.options
  /\ csv.symbols = <<>>
  /\ ~csv.result.success
  /\ csv.result.error = MsgNoSymbolsFound
  /\ files = NoFile

----------------------------------------------------------------------------
\* Export of a store, then import of the written file into the emptied store.

Str_a == <<97>>
RoundTripSymbols ==
  { [id |-> "river", name |-> Str_River, category |-> Str_flow,
     description |-> Str_demo, interpretations |-> [dream |-> "passage"],
     related_symbols |-> <<"labyrinth", "delta">>, properties |-> NoObject],
    [id |-> "delta", name |-> Str_Delta, category |-> <<>>,
     description |-> Str_demo, interpretations |-> NoObject,
     related_symbols |-> <<>>, properties |-> NoObject],
    [id |-> "moon", name |-> Str_a, category |-> Str_test,
     description |-> Str_demo, interpretations |-> NoObject,
     related_symbols |-> <<"a,b">>, properties |-> NoObject] }

MaxStored == 2
RoundTripStores ==
  UNION {Perms(S) : S \in {T \in SUBSET RoundTripSymbols :
                             Cardinality(T) >= 1 /\ Cardinality(T) <= MaxStored}}

InitRoundTrip ==
  /\ backend \in {"demo", "prisma"}
  /\ \E s \in RoundTripStores :
       /\ symbols = StampAll(s, 0)
       /\ symbolTable = Range(StampAll(s, 0))
  /\ symbolSets = <<>>
  /\ symbolSetTable = {}
  /\ prisma = "null"
  /\ droppedClients = 0
  /\ clock = 0
  /\ nops = 0
  /\ call = NoCall
  /\ result = NoResult
  /\ payload = NoPayload
  /\ csv = NoCall
  /\ files = NoFile
  /\ process = NoProcess
  /\ tasks = {}
  /\ pool = NoPool

\* deleteSymbol(id) of a stored id, without cascade.
RoundTripDeleteSymbol ==
  \E id \in Db_ids(backend, Store) :
    \/ DemoWrite([op |-> "deleteSymbol", id |-> id, cascade |-> FALSE,
                  existed |-> TRUE, at |-> now],
                 Demo_deleteSymbol(symbols, id, FALSE))
    \/ PrismaWrite([op |-> "deleteSymbol", id |-> id, cascade |-> FALSE,
                    existed |-> TRUE, at |-> now,
                    reached |-> (prisma # "null")],
                   Prisma_deleteSymbol(prisma, symbolTable, id, FALSE, 0, now))

\* importSymbols of the file exportSymbols wrote.
RoundTripImport ==
  /\ files.exists
  /\ \E options \in {NoOptions, [skipDuplicates |-> FALSE]} :
       CsvImport(files, options)

NextRoundTrip ==
  \/ PrismaConnect
  \/ PrismaDisconnect
  \/ CsvExportSymbols
  \/ RoundTripDeleteSymbol
  \/ RoundTripImport

SpecRoundTrip == InitRoundTrip /\ [][NextRoundTrip]_vars

\* C21: importing the file that exportSymbols wrote from all symbols of a
\* store into an empty store, with skipDuplicates false, records no row
\* error and leaves a store with the same ids and the same field values,
\* timestamps aside.
C21_RoundTrip ==
  [][ /\ files.exists
      /\ "category" \notin DOMAIN files.source.options
      /\ "symbolIds" \notin DOMAIN files.source.options
      /\ Db_ids(backend, Store) = {}
      /\ backend = "prisma" => prisma = "client"
      /\ csv'.op = "importSymbols"
      /\ csv'.file = files
      /\ ~OptSkipDuplicates(csv'.options)
      /\ (csv' # csv \/ symbols' # symbols \/ symbolTable' # symbolTable)
      => /\ csv'.result.errors = <<>>
         /\ {WithoutTimestamps(r) : r \in StoreOf(symbols', symbolTable')} =
              {WithoutTimestamps(r) : r \in Range(files.source.symbols)}
    ]_vars

----------------------------------------------------------------------------
\* REST symbol routes (createSymbolRoutes, src/src/api/routes/health.ts)
\* behind the validateRequest middleware, over either backend.

MsgInvalidBody == <<"Invalid", "request", "body">>
MsgInvalidQuery == <<"Invalid", "query", "parameters">>

Rest_failure(status, message) ==
  [status |-> status, body |-> [success |-> FALSE, error |-> message]]

\* CreateSymbolSchema.safeParse(req.body): the checked body, category
\* turned into null when it is absent or empty.
CreateSymbolSchema_safeParse(body) ==
  IF \/ body.id = "" \/ body.id \notin IdPattern
     \/ Len(body.name) < 1 \/ Len(body.name) > 255
     \/ Len(body.description) < 1 \/ Len(body.description) > 2000
     \/ ("category" \in DOMAIN body /\ body.category # NullStr
           /\ (Len(body.category) < 1 \/ Len(body.category) > 100))
  THEN [success |-> FALSE]
  ELSE [success |-> TRUE,
        data |-> Spread(body,
                   [category |-> IF "category" \in DOMAIN body
                                 THEN body.category ELSE NullStr])]

\* UpdateSymbolSchema.safeParse(req.body): every field is optional.
UpdateSymbolSchema_safeParse(body) ==
  IF \/ ("name" \in DOMAIN body
           /\ (Len(body.name) < 1 \/ Len(body.name) > 255))
     \/ ("description" \in DOMAIN body
           /\ (Len(body.description) < 1 \/ Len(body.description) > 2000))
  THEN [success |-> FALSE]
  ELSE [success |-> TRUE, data |-> body]

\* router.post("/") on the envelope of createSymbol.
Rest_postSymbol(envelope) ==
  IF ~envelope.success
  THEN Rest_failure(IF includes(envelope.error.message, <<"already", "exists">>)
                    THEN 409 ELSE 400,
                    envelope.error.message)
  ELSE [status |-> 201, body |-> [success |-> TRUE, data |-> envelope.data]]

\* router.put("/:id") on the envelope of updateSymbol.
Rest_putSymbol(envelope) ==
  IF ~envelope.success
  THEN Rest_failure(IF includes(envelope.error.message, <<"not", "found">>)
                    THEN 404 ELSE 400,
                    envelope.error.message)
  ELSE [status |-> 200, body |-> [success |-> TRUE, data |-> envelope.data]]

\* router.delete("/:id") on the envelope of deleteSymbol.
Rest_deleteSymbol(id, cascade, envelope) ==
  IF ~envelope.success
  THEN Rest_failure(IF includes(envelope.error.message, <<"not", "found">>)
                    THEN 404 ELSE 400,
                    envelope.error.message)
  ELSE [status |-> 200,
        body |-> [success |-> TRUE,
                  message |-> <<"Symbol", id, "deleted", "successfully">>
                              \o (IF cascade
                                  THEN <<"with", "cascade", "cleanup">>
                                  ELSE <<>>)]]

\* Request bodies of POST /api/symbols.
RestBodies ==
  SymbolInputs \cup
  { [id |-> "bad id", name |-> Str_Related, category |-> Str_test,
     description |-> Str_demo, interpretations |-> NoObject,
     related_symbols |-> <<>>, properties |-> NoObject] }

\* Request bodies of PUT /api/symbols/:id.
RestUpdates == SymbolUpdates \cup { [name |-> <<>>] }

\* The middleware answered 400 and the route handler did not run.
RestRejected(route, message) ==
  /\ payload' = Spread(Rest_failure(400, message),
                       [route |-> route, envelope |-> NoResult])
  /\ UNCHANGED <<backend, process, tasks, pool, csv, files, droppedClients, symbols, symbolSets,
                 prisma, symbolTable, symbolSetTable, clock, nops, call,
                 result>>

\* A route handler that made one write call: out holds the store the call
\* left, its envelope, and the response the handler sent for it.
RestWrite(route, c, out) ==
  /\ out.store # Store => nops < MaxOps
  /\ call' = c
  /\ result' = out.result
  /\ payload' = Spread(out.response,
                       [route |-> route, envelope |-> out.result])
  /\ symbols' = IF backend = "demo" THEN out.store ELSE symbols
  /\ symbolTable' = IF backend = "demo" THEN symbolTable ELSE out.store
  /\ nops' = IF out.store # Store THEN nops + 1 ELSE nops
  /\ UNCHANGED <<backend, process, tasks, pool, csv, files, droppedClients, symbolSets, prisma,
                 symbolSetTable, clock>>

\* The ORM faults a call on the backend in use can meet.
RestFaults(n) == IF backend = "demo" THEN {0} ELSE OrmFaults(n)

RestPostSymbol ==
  \E body \in RestBodies, failAt \in RestFaults(1) :
    LET parsed == CreateSymbolSchema_safeParse(body)
    IN  IF ~parsed.success
        THEN RestRejected("POST /", MsgInvalidBody)
        ELSE
          LET created ==
                IF backend = "demo"
                THEN Demo_createSymbol(symbols, parsed.data, now)
                ELSE Prisma_createSymbol(prisma, symbolTable, parsed.data,
                                         failAt, now)
          IN  RestWrite("POST /",
                        [op |-> "createSymbol", id |-> body.id,
                         symbol |-> parsed.data, existed |-> Stored(body.id),
                         at |-> now,
                         reached |-> (backend = "demo"
                                        \/ (prisma # "null" /\ failAt = 0))],
                        [store |-> created.store, result |-> created.result,
                         response |-> Rest_postSymbol(created.result)])

RestPutSymbol ==
  \E id \in UpdateIds, body \in RestUpdates, failAt \in RestFaults(2) :
    LET parsed == UpdateSymbolSchema_safeParse(body)
    IN  IF ~parsed.success
        THEN RestRejected("PUT /:id", MsgInvalidBody)
        ELSE
          LET updated ==
                IF backend = "demo"
                THEN Demo_updateSymbol(symbols, id, parsed.data, now)
                ELSE Prisma_updateSymbol(prisma, symbolTable, id, parsed.data,
                                         failAt, now)
          IN  RestWrite("PUT /:id",
                        [op |-> "updateSymbol", id |-> id,
                         updates |-> parsed.data, existed |-> Stored(id),
                         at |-> now,
                         reached |-> (backend = "demo"
                                        \/ (prisma # "null" /\ failAt = 0))],
                        [store |-> updated.store, result |-> updated.result,
                         response |-> Rest_putSymbol(updated.result)])

RestDeleteSymbol ==
  \E id \in DeleteIds, cascade \in BOOLEAN :
   \E failAt \in {f \in FailPoints \cap RestFaults(MaxFailAt) :
                    f <= Prisma_deleteCalls(symbolTable, id, cascade)} :
    \E deleted \in (IF backend = "demo"
                    THEN {Demo_deleteSymbol(symbols, id, cascade)}
                    ELSE Prisma_deleteSymbol(prisma, symbolTable, id, cascade,
                                             failAt, now)) :
      RestWrite("DELETE /:id",
                [op |-> "deleteSymbol", id |-> id, cascade |-> cascade,
                 existed |-> Stored(id), at |-> now,
                 reached |-> (backend = "demo"
                                \/ (prisma # "null" /\ failAt = 0))],
                [store |-> deleted.store, result |-> deleted.result,
                 response |-> Rest_deleteSymbol(id, cascade, deleted.result)])

\* QuerySymbolsSchema.safeParse(req.query): limit and offset with their
\* defaults, or a rejection.
QuerySymbolsSchema_safeParse(query) ==
  LET limit == IF "limit" \in DOMAIN query THEN query.limit ELSE 50
      offset == IF "offset" \in DOMAIN query THEN query.offset ELSE 0
  IN  IF limit < 1 \/ limit > 1000 \/ offset < 0
      THEN [success |-> FALSE]
      ELSE [success |-> TRUE,
            data |-> Spread(query, [limit |-> limit, offset |-> offset])]

\* router.get("/") on the envelope of the listing call.
Rest_getSymbols(query, envelope) ==
  IF ~envelope.success
  THEN Rest_failure(500, envelope.error.message)
  ELSE [status |-> 200,
        body |-> [success |-> TRUE, data |-> envelope.data,
                  pagination |-> [limit |-> query.limit,
                                  offset |-> query.offset,
                                  count |-> Len(envelope.data)]]]

\* Query strings of GET /api/symbols.
RestQueries ==
  { NoOptions, [limit |-> 1000], [limit |-> 1001], [limit |-> 0],
    [limit |-> 1, search |-> Str_river],
    [offset |-> 1, category |-> Str_journey] }

\* The listing call router.get("/") makes for a parsed query.
Rest_listCall(query) ==
  LET options == [limit |-> query.limit, offset |-> query.offset]
  IN  IF "search" \in DOMAIN query /\ query.search # <<>>
      THEN [op |-> "searchSymbols", query |-> query.search,
            options |-> options]
      ELSE IF "category" \in DOMAIN query /\ query.category # <<>>
      THEN [op |-> "filterByCategory", category |-> query.category,
            options |-> options]
      ELSE [op |-> "getSymbols", options |-> options]

\* The envelopes the backend in use can answer a listing call with.
ListAnswers(c, failAt) ==
  IF backend = "demo"
  THEN {IF c.op = "searchSymbols"
        THEN Demo_searchSymbols(symbols, c.query, c.options)
        ELSE IF c.op = "filterByCategory"
        THEN Demo_filterByCategory(symbols, c.category, c.options)
        ELSE IF c.op = "searchSymbolSets"
        THEN Demo_searchSymbolSets(symbolSets, c.query, c.options)
        ELSE Demo_getSymbols(symbols, c.options)}
  ELSE IF c.op = "searchSymbols"
  THEN Prisma_searchSymbols(prisma, symbolTable, c.query, c.options, failAt)
  ELSE IF c.op = "filterByCategory"
  THEN Prisma_filterByCategory(prisma, symbolTable, c.category, c.options,
                               failAt)
  ELSE IF c.op = "searchSymbolSets"
  THEN Prisma_searchSymbolSets(prisma, symbolSetTable, c.query, c.options,
                               failAt)
  ELSE Prisma_getSymbols(prisma, symbolTable, c.options, failAt)

RestGetSymbols ==
  \E query \in RestQueries, failAt \in RestFaults(1) :
    LET parsed == QuerySymbolsSchema_safeParse(query)
    IN  IF ~parsed.success
        THEN RestRejected("GET /", MsgInvalidQuery)
        ELSE
          LET c == Rest_listCall(parsed.data)
          IN  \E envelope \in ListAnswers(c, failAt) :
                /\ call' = Spread(c, [reached |->
                                        (backend = "demo"
                                           \/ (prisma # "null" /\ failAt = 0))])
                /\ result' = envelope
                /\ payload' = Spread(Rest_getSymbols(parsed.data, envelope),
                                     [route |-> "GET /", envelope |-> envelope,
                                      request |-> query])
                /\ UNCHANGED <<backend, process, tasks, pool, csv, files, droppedClients, symbols,
                               symbolSets, prisma, symbolTable,
                               symbolSetTable, clock, nops>>

----------------------------------------------------------------------------
\* The listing tools of SymbolsService (src/unnamed/part_007) over either
\* backend.  The protocol layer hands a call to the handler only when the
\* arguments pass TOOL_SCHEMAS.

IsSpace(c) == c \in {9, 10, 13, 32}

\* trimText that returns the text as it is.
trimText_asIs(text) == text

\* String.prototype.trim on a text of character codes.
trimText(text) ==
  IF \A i \in 1..Len(text) : IsSpace(text[i]) THEN <<>>
  ELSE LET first == CHOOSE i \in 1..Len(text) :
                      ~IsSpace(text[i]) /\ \A j \in 1..(i - 1) : IsSpace(text[j])
           last == CHOOSE i \in 1..Len(text) :
                     ~IsSpace(text[i])
                       /\ \A j \in (i + 1)..Len(text) : IsSpace(text[j])
       IN  SubSeq(text, first, last)

\* TOOL_SCHEMAS.*.limit: z.number().min(1).max(100).default(50).optional()
ToolSchema_accepts(args) ==
  "limit" \in DOMAIN args => (args.limit >= 1 /\ args.limit <= 100)

\* typeof args.limit === "number" ? args.limit : 50
ToolLimit(args) == IF "limit" \in DOMAIN args THEN args.limit ELSE 50

\* The early return of a handler whose required text is blank.
Tool_blank(message) ==
  [called |-> FALSE, call |-> NoCall, result |-> NoResult,
   payload |-> [error |-> message]]

\* The rest of a listing handler: a failure envelope is thrown and caught,
\* a success is reported with its count.
Tool_listed(c, envelope, listKey, internalError) ==
  IF ~envelope.success
  THEN [called |-> TRUE, call |-> c, result |-> envelope,
        payload |-> [error |-> internalError,
                     details |-> envelope.error.message]]
  ELSE [called |-> TRUE, call |-> c, result |-> envelope,
        payload |-> [list |-> listKey, items |-> envelope.data,
                     count |-> Len(envelope.data)]]

search_symbols(args, failAt) ==
  IF trimText(args.query) = <<>>
  THEN {Tool_blank("Search query cannot be empty")}
  ELSE LET c == [op |-> "searchSymbols", query |-> args.query,
                 options |-> [limit |-> ToolLimit(args), offset |-> 0]]
       IN  {Tool_listed(c, envelope, "symbols",
                        "Internal error while searching symbols") :
              envelope \in ListAnswers(c, failAt)}

filter_by_category(args, failAt) ==
  IF trimText(args.category) = <<>>
  THEN {Tool_blank("Category name cannot be empty")}
  ELSE LET c == [op |-> "filterByCategory", category |-> args.category,
                 options |-> [limit |-> ToolLimit(args), offset |-> 0]]
       IN  {Tool_listed(c, envelope, "symbols",
                        "Internal error while filtering symbols") :
              envelope \in ListAnswers(c, failAt)}

search_symbol_sets(args, failAt) ==
  IF trimText(args.query) = <<>>
  THEN {Tool_blank("Search query cannot be empty")}
  ELSE LET c == [op |-> "searchSymbolSets", query |-> args.query,
                 options |-> [limit |-> ToolLimit(args), offset |-> 0]]
       IN  {Tool_listed(c, envelope, "symbol_sets",
                        "Internal error while searching symbol sets") :
              envelope \in ListAnswers(c, failAt)}

get_symbols(args, failAt) ==
  LET c == [op |-> "getSymbols",
            options |-> [limit |-> ToolLimit(args), offset |-> 0]]
  IN  {Tool_listed(c, envelope, "symbols",
                   "Internal error while retrieving symbols") :
         envelope \in ListAnswers(c, failAt)}

Str_blank == <<32, 32>>
ToolTexts == {Str_journey, <<>>, Str_blank}
ToolLimits == {[limit |-> 100], [limit |-> 101], NoOptions}

\* One call of a listing tool: the handler ran on args and returned out.
ToolAnswer(tool, args, failAt, out) ==
  /\ ToolSchema_accepts(args)
  /\ call' = IF out.called
             THEN Spread(out.call,
                         [reached |-> (backend = "demo"
                                         \/ (prisma # "null" /\ failAt = 0))])
             ELSE NoCall
  /\ result' = out.result
  /\ payload' = Spread(out.payload, [tool |-> tool, args |-> args])
  /\ UNCHANGED <<backend, process, tasks, pool, csv, files, droppedClients, symbols, symbolSets,
                 prisma, symbolTable, symbolSetTable, clock, nops>>

ToolSearchSymbols ==
  \E query \in ToolTexts, limit \in ToolLimits, failAt \in RestFaults(1) :
    LET args == Spread([query |-> query], limit)
    IN  \E out \in search_symbols(args, failAt) :
          ToolAnswer("search_symbols", args, failAt, out)

ToolFilterByCategory ==
  \E category \in ToolTexts, limit \in ToolLimits, failAt \in RestFaults(1) :
    LET args == Spread([category |-> category], limit)
    IN  \E out \in filter_by_category(args, failAt) :
          ToolAnswer("filter_by_category", args, failAt, out)

ToolSearchSymbolSets ==
  \E query \in ToolTexts, limit \in ToolLimits, failAt \in RestFaults(1) :
    LET args == Spread([query |-> query], limit)
    IN  \E out \in search_symbol_sets(args, failAt) :
          ToolAnswer("search_symbol_sets", args, failAt, out)

ToolGetSymbols ==
  \E args \in ToolLimits, failAt \in RestFaults(1) :
    \E out \in get_symbols(args, failAt) :
      ToolAnswer("get_symbols", args, failAt, out)

NextAdapters ==
  \/ PrismaConnect
  \/ PrismaDisconnect
  \/ RestGetSymbols
  \/ RestPostSymbol
  \/ RestPutSymbol
  \/ RestDeleteSymbol
  \/ ToolGetSymbol
  \/ ToolGetSymbols
  \/ ToolSearchSymbols
  \/ ToolFilterByCategory
  \/ ToolSearchSymbolSets

SpecAdapters == Init /\ [][NextAdapters]_vars

\* The failure kinds of the Data-Access Interface, read off the message.
IsNotFound(envelope) ==
  ~envelope.success /\ \E id \in SymbolIds \cup UpdateIds \cup DeleteIds :
                         envelope.error.message = MsgSymbolNotFound(id)
IsAlreadyExists(envelope) ==
  ~envelope.success /\ \E body \in RestBodies :
                         envelope.error.message = MsgSymbolAlreadyExists(body.id)

\* C22: the REST create, update and delete routes answer a failure envelope
\* of the backend with 404 when it is NotFound, 409 when it is
\* AlreadyExists, and 500 for every other failure the backends produce.
C22_RestFailureStatus ==
  /\ payload # NoPayload
  /\ "route" \in DOMAIN payload
  /\ payload.route \in {"POST /", "PUT /:id", "DELETE /:id"}
  /\ payload.envelope # NoResult
  /\ ~payload.envelope.success
  => payload.status = IF IsNotFound(payload.envelope) THEN 404
                      ELSE IF IsAlreadyExists(payload.envelope) THEN 409
                      ELSE 500

\* The listing calls an adapter made for a client request.
IsAdapterListing ==
  /\ payload # NoPayload
  /\ ("route" \in DOMAIN payload => payload.route = "GET /"
                                      /\ payload.envelope # NoResult)
  /\ ("tool" \in DOMAIN payload => payload.tool # "get_symbol")
  /\ call # NoCall
  /\ call.op \in {"getSymbols", "searchSymbols", "filterByCategory",
                  "searchSymbolSets"}

\* What the client asked for: the query string or the tool arguments.
ClientRequest ==
  IF "route" \in DOMAIN payload THEN payload.request ELSE payload.args

\* C23: every limit an adapter passes to a listing, search or filter
\* operation for a client request lies between 1 and 100, and is 50 when the
\* client supplied none.
C23_AdapterLimit ==
  IsAdapterListing =>
    /\ call.options.limit >= 1
    /\ call.options.limit <= 100
    /\ "limit" \notin DOMAIN ClientRequest => call.options.limit = 50

IsBlank(text) == \A i \in 1..Len(text) : IsSpace(text[i])

\* The required text argument of the last tool call was blank.
BlankToolCall ==
  /\ payload # NoPayload
  /\ "tool" \in DOMAIN payload
  /\ \/ payload.tool \in {"search_symbols", "search_symbol_sets"}
          /\ IsBlank(payload.args.query)
     \/ payload.tool = "filter_by_category" /\ IsBlank(payload.args.category)
     \/ payload.tool = "get_symbol" /\ payload.id \in {"", " ", "  "}

\* C24: search_symbols, filter_by_category, search_symbol_sets and
\* get_symbol answer a blank required argument with an error payload and
\* make no call to the Data-Access Interface.
C24_BlankArgumentRejected ==
  BlankToolCall =>
    /\ "error" \in DOMAIN payload
    /\ "details" \notin DOMAIN payload
    /\ call = NoCall
    /\ result = NoResult

C24_Witness ==
  /\ BlankToolCall
  /\ payload.tool = "search_symbol_sets"
  /\ payload.args.query = Str_blank
  /\ payload.error = "Search query cannot be empty"
  /\ call = NoCall

----------------------------------------------------------------------------
Signals == {"SIGINT", "SIGTERM"}

\* setupShutdownHandlers runs when the module is loaded, before main(): its
\* listener is the first one registered for both signals.
setupShutdownHandlers == <<"exit">>

\* The listener of setupShutdownHandlers: it logs and calls process.exit(0)
\* without awaiting anything.
Listener_exit(st) ==
  [st EXCEPT !.process.pc = "exited", !.process.exit = 0]

\* The shutdown closure of startRestApiServer: apiServer.stop(), then
\* database.disconnect(), then exit(0); exit(1) when one of them rejects.
Listener_restShutdown(st, stopRejects) ==
  IF stopRejects
  THEN [st EXCEPT !.process.pc = "exited", !.process.exit = 1]
  ELSE [st EXCEPT !.process.pc = "exited", !.process.exit = 0,
                  !.process.http = "closed", !.prisma = "null"]

\* process.emit of a signal: the listeners run in registration order, and
\* none runs once process.exit was called.
RECURSIVE EmitSignal(_, _, _)
EmitSignal(i, st, stopRejects) ==
  IF i > Len(st.process.listeners) \/ st.process.pc = "exited"
  THEN st
  ELSE EmitSignal(i + 1,
                  IF st.process.listeners[i] = "exit"
                  THEN Listener_exit(st)
                  ELSE Listener_restShutdown(st, stopRejects),
                  stopRejects)

\* The module is loaded and main() took the --api branch: a PrismaDatabase
\* without client, no HTTP server, the listener of setupShutdownHandlers.
InitServer ==
  /\ backend = "prisma"
  /\ symbols = StampAll(SeedSymbols, 0)
  /\ symbolSets = StampAll(SeedSymbolSets, 0)
  /\ prisma = "null"
  /\ droppedClients = 0
  /\ symbolTable = Range(StampAll(SeedSymbols, 0))
  /\ symbolSetTable = Range(StampAll(SeedSymbolSets, 0))
  /\ clock = 0
  /\ nops = 0
  /\ call = NoCall
  /\ result = NoResult
  /\ payload = NoPayload
  /\ csv = NoCall
  /\ files = NoFile
  /\ process = [pc |-> "main", http |-> "closed",
                listeners |-> setupShutdownHandlers, exit |-> -1,
                signal |-> "none", signalAt |-> "none"]
  /\ tasks = {}
  /\ pool = NoPool

\* startRestApiServer, database.connect(): exit(1) when it rejects.
ServerConnect ==
  \E rejects \in BOOLEAN :
    /\ process.pc = "main"
    /\ prisma' = "client"
    /\ call' = [op |-> "connect", threw |-> rejects,
                hadClient |-> (prisma # "null")]
    /\ process' = IF rejects
                  THEN [process EXCEPT !.pc = "exited", !.exit = 1]
                  ELSE [process EXCEPT !.pc = "connected"]
    /\ result' = NoResult
    /\ payload' = NoPayload
    /\ UNCHANGED <<backend, tasks, pool, csv, files, droppedClients, symbols,
                   symbolSets, symbolTable, symbolSetTable, clock, nops>>

\* startRestApiServer, apiServer.start(port): on success the shutdown closure
\* is registered for both signals; on failure disconnect() and exit(1).
ServerStart ==
  \E rejects \in BOOLEAN :
    /\ process.pc = "connected"
    /\ process' = IF rejects
                  THEN [process EXCEPT !.pc = "exited", !.exit = 1]
                  ELSE [process EXCEPT
                          !.pc = "running", !.http = "listening",
                          !.listeners = Append(@, "restShutdown")]
    /\ prisma' = IF rejects THEN "null" ELSE prisma
    /\ UNCHANGED <<backend, tasks, pool, csv, files, droppedClients, symbols,
                   symbolSets, symbolTable, symbolSetTable, clock, nops,
                   call, result, payload>>

\* SIGINT or SIGTERM is delivered to the live process.
ServerSignal ==
  \E sig \in Signals, stopRejects \in BOOLEAN :
    LET out == EmitSignal(1,
                 [process |-> [process EXCEPT !.signal = sig,
                                              !.signalAt = process.pc],
                  prisma |-> prisma],
                 stopRejects)
    IN  /\ process.pc \in {"main", "connected", "running"}
        /\ process' = out.process
        /\ prisma' = out.prisma
        /\ UNCHANGED <<backend, tasks, pool, csv, files, droppedClients,
                       symbols, symbolSets, symbolTable, symbolSetTable,
                       clock, nops, call, result, payload>>

\* The routes answer while the HTTP server listens.
ServerGetSymbols == process.pc = "running" /\ RestGetSymbols
ServerPostSymbol == process.pc = "running" /\ RestPostSymbol
ServerPutSymbol == process.pc = "running" /\ RestPutSymbol
ServerDeleteSymbol == process.pc = "running" /\ RestDeleteSymbol

NextServer ==
  \/ ServerConnect
  \/ ServerStart
  \/ ServerSignal
  \/ ServerGetSymbols
  \/ ServerPostSymbol
  \/ ServerPutSymbol
  \/ ServerDeleteSymbol

SpecServer == InitServer /\ [][NextServer]_vars

\* C26: in REST API mode, once the process has exited on a SIGINT or SIGTERM
\* that arrived after the server had started, the HTTP server is stopped and
\* the backend is disconnected.
C26_GracefulShutdown ==
  /\ process.pc = "exited"
  /\ process.signal \in Signals
  /\ process.signalAt = "running"
  => /\ process.http = "closed"
     /\ prisma = "null"

\* ---------------------------------------------------------------------------
\* PrismaDatabase.deleteSymbol with cascade, one ORM call per step, next to
\* other writers of the symbols table.
\* ---------------------------------------------------------------------------

NoWrites == <<>>
InFlight == {t \in tasks : t.pc \in {"findMany", "update", "delete"}}
Task == CHOOSE t \in tasks : TRUE

\* The catch block of deleteSymbol: the call ends with a failure envelope.
Cascade_failed(t, message) ==
  /\ tasks' = {[t EXCEPT !.pc = "failed"]}
  /\ result' = Fail(message)

\* The filtered list the loop writes for ref, a row as findMany returned it.
Cascade_updatedRelated(rows, ref, id) == filterOut(ref.related_symbols, id)

\* deleteSymbol(id, true) up to the answer of symbol.findUnique.
CascadeFindUnique ==
  \E id \in DeleteIds, rejects \in BOOLEAN :
    /\ backend = "prisma"
    /\ tasks = {}
    /\ call' = [op |-> "deleteSymbol", id |-> id, cascade |-> TRUE,
                existed |-> Stored(id), at |-> now,
                reached |-> (prisma # "null" /\ ~rejects)]
    /\ IF prisma = "null"
       THEN tasks' = {} /\ result' = Fail(MsgNotConnected)
       ELSE IF rejects
       THEN tasks' = {} /\ result' = Fail(MsgOrmFailure)
       ELSE IF ~\E r \in symbolTable : r.id = id
       THEN tasks' = {} /\ result' = Fail(MsgSymbolNotFound(id))
       ELSE /\ tasks' = {[id |-> id, pc |-> "findMany", referencing |-> <<>>,
                          i |-> 1, writes |-> NoWrites]}
            /\ result' = NoResult
    /\ payload' = NoPayload
    /\ UNCHANGED <<backend, process, pool, csv, files, droppedClients,
                   symbols, symbolSets, prisma, symbolTable, symbolSetTable,
                   clock, nops>>

\* symbol.findMany({ where: { related_symbols: { has: id } } }): the rows are
\* copied into the call, in an order the query does not fix.
CascadeFindMany ==
  \E t \in InFlight, rejects \in BOOLEAN :
    /\ t.pc = "findMany"
    /\ IF rejects
       THEN Cascade_failed(t, MsgOrmFailure)
       ELSE /\ \E referencing \in
                    Perms({q \in symbolTable :
                             \E k \in 1..Len(q.related_symbols) :
                               q.related_symbols[k] = t.id}) :
                 tasks' = {[t EXCEPT
                              !.referencing = referencing,
                              !.pc = IF referencing = <<>> THEN "delete"
                                     ELSE "update"]}
            /\ UNCHANGED result
    /\ UNCHANGED <<backend, process, pool, csv, files, droppedClients,
                   symbols, symbolSets, prisma, symbolTable, symbolSetTable,
                   clock, nops, call, payload>>

\* One turn of the loop: symbol.update of referencing[i] with the filtered
\* list and a new updated_at.  The update rejects when the row is gone.
CascadeUpdate ==
  \E t \in InFlight, rejects \in BOOLEAN :
    LET ref == t.referencing[t.i]
    IN  /\ t.pc = "update"
        /\ IF rejects \/ ~\E r \in symbolTable : r.id = ref.id
           THEN /\ Cascade_failed(t, MsgOrmFailure)
                /\ UNCHANGED symbolTable
           ELSE /\ symbolTable' =
                     {IF r.id = ref.id
                      THEN Spread(r,
                             [related_symbols |->
                                Cascade_updatedRelated(symbolTable, ref, t.id),
                              updated_at |-> now])
                      ELSE r : r \in symbolTable}
                /\ tasks' = {[t EXCEPT
                                !.i = @ + 1,
                                !.pc = IF t.i = Len(t.referencing)
                                       THEN "delete" ELSE "update"]}
                /\ UNCHANGED result
        /\ UNCHANGED <<backend, process, pool, csv, files, droppedClients,
                       symbols, symbolSets, prisma, symbolSetTable, clock,
                       nops, call, payload>>

\* symbol.delete({ where: { id } }) and the success envelope.
CascadeDelete ==
  \E t \in InFlight, rejects \in BOOLEAN :
    /\ t.pc = "delete"
    /\ IF rejects \/ ~\E r \in symbolTable : r.id = t.id
       THEN /\ Cascade_failed(t, MsgOrmFailure)
            /\ UNCHANGED symbolTable
       ELSE /\ symbolTable' = {r \in symbolTable : r.id # t.id}
            /\ tasks' = {[t EXCEPT !.pc = "done"]}
            /\ result' = Ok(TRUE)
    /\ UNCHANGED <<backend, process, pool, csv, files, droppedClients,
                   symbols, symbolSets, prisma, symbolSetTable, clock, nops,
                   call, payload>>

\* The list a successful write of another caller stored under an id, kept
\* per id while the delete is in flight.
Noted(t, id, related_symbols) ==
  [t EXCEPT !.writes =
     [k \in DOMAIN t.writes \cup {id} |->
        IF k = id THEN related_symbols ELSE t.writes[k]]]

\* updateSymbol of another caller on another id, while the delete is in
\* flight.
ConcurrentUpdateSymbol ==
  \E t \in InFlight, id \in UpdateIds, updates \in SymbolUpdates :
    LET out == Prisma_updateSymbol(prisma, symbolTable, id, updates, 0, now)
    IN  /\ id # t.id
        /\ symbolTable' = out.store
        /\ tasks' = IF out.result.success
                       /\ "related_symbols" \in DOMAIN updates
                    THEN {Noted(t, id, updates.related_symbols)}
                    ELSE tasks
        /\ UNCHANGED <<backend, process, pool, csv, files, droppedClients,
                       symbols, symbolSets, prisma, symbolSetTable, clock,
                       nops, call, result, payload>>

\* createSymbol of another caller with another id, while the delete is in
\* flight.
ConcurrentCreateSymbol ==
  \E t \in InFlight, symbol \in SymbolInputs :
    LET out == Prisma_createSymbol(prisma, symbolTable, symbol, 0, now)
    IN  /\ symbol.id # t.id
        /\ symbolTable' = out.store
        /\ tasks' = IF out.result.success
                    THEN {Noted(t, symbol.id, symbol.related_symbols)}
                    ELSE tasks
        /\ UNCHANGED <<backend, process, pool, csv, files, droppedClients,
                       symbols, symbolSets, prisma, symbolSetTable, clock,
                       nops, call, result, payload>>

NextConcurrent ==
  \/ Tick
  \/ PrismaConnect
  \/ CascadeFindUnique
  \/ CascadeFindMany
  \/ CascadeUpdate
  \/ CascadeDelete
  \/ ConcurrentUpdateSymbol
  \/ ConcurrentCreateSymbol

SpecConcurrent == Init /\ [][NextConcurrent]_vars

\* C27: once a cascade delete of X that ran next to updateSymbol and
\* createSymbol calls on other ids has answered with success, no stored symbol
\* lists X in related_symbols, and every list those calls wrote still holds
\* all its entries other than X.
C27_ConcurrentCascade ==
  \A t \in tasks :
    t.pc = "done" =>
      /\ \A r \in symbolTable : t.id \notin Range(r.related_symbols)
      /\ \A id \in DOMAIN t.writes :
           \E r \in symbolTable :
             /\ r.id = id
             /\ Range(t.writes[id]) \ {t.id} \subseteq Range(r.related_symbols)

\* C28: after a connect() that failed on a backend without client, the
\* relational backend is not connected: the next operation answers with the
\* failure envelope Database not connected unless it is a connect, and the
\* next disconnect() finds no client to close.
C28_FailedConnectNotConnected ==
  [][ /\ backend = "prisma"
      /\ call.op = "connect"
      /\ call.threw
      /\ ~call.hadClient
      /\ call' # call
      => IF call'.op = "connect" THEN TRUE
         ELSE IF call'.op = "disconnect" THEN ~call'.hadClient
         ELSE result' = Fail(MsgNotConnected)
    ]_vars

MaxLeases == 2

MsgQueryFailed == <<"relation", "symbols", "does", "not", "exist">>
MsgPoolTimeout == <<"timeout", "exceeded", "when", "trying", "to", "connect">>
MsgNoHealthRows == <<"Health", "check", "returned", "no", "results">>

\* client.release(): the client goes back to the pool.
PoolClient_release(lease) == [lease EXCEPT !.releases = @ + 1]

\* executeQuery that releases the client after the return statement only.
executeQuery_releaseOnReturn(lease) ==
  IF lease.failed THEN lease ELSE PoolClient_release(lease)

\* The finally block of executeQuery.
executeQuery_finally(lease) == PoolClient_release(lease)

\* A pool whose client number n was given to the call c.
Pool_acquire(c) ==
  [pool EXCEPT
     !.leases = Append(@, [by |-> c.op, releases |-> 0, failed |-> FALSE]),
     !.calls = @ \cup {[c EXCEPT !.lease = Len(pool.leases) + 1]}]

\* The rows of SELECT ... FROM symbols ORDER BY name LIMIT $1 OFFSET $2.
Pg_getSymbolsRows(rows, options) ==
  {[i \in 1..Len(TakeSkip(s, options)) |->
      WithoutTimestamps(TakeSkip(s, options)[i])] : s \in OrderByName(rows)}

\* What the operation returns once executeQuery has returned the rows.
Pg_answers(c, rows, t) ==
  IF c.op = "getSymbols"
  THEN {Ok(data) : data \in Pg_getSymbolsRows(rows, c.options)}
  ELSE {Ok([status |-> "healthy", timestamp |-> t])}

InitPool ==
  /\ backend = "postgres"
  /\ symbols = StampAll(SeedSymbols, 0)
  /\ symbolSets = StampAll(SeedSymbolSets, 0)
  /\ prisma = "null"
  /\ droppedClients = 0
  /\ symbolTable = Range(StampAll(SeedSymbols, 0))
  /\ symbolSetTable = Range(StampAll(SeedSymbolSets, 0))
  /\ clock = 0
  /\ nops = 0
  /\ call = NoCall
  /\ result = NoResult
  /\ payload = NoPayload
  /\ csv = NoCall
  /\ files = NoFile
  /\ process = NoProcess
  /\ tasks = {}
  /\ pool = [pool |-> "null", leases |-> <<>>, calls |-> {}]

\* PostgreSQLDatabase.connect up to the answer of pool.connect(): the new
\* Pool is assigned first; the call throws when no client can be had.
PgConnect ==
  \E rejects \in BOOLEAN :
    /\ backend = "postgres"
    /\ IF rejects
       THEN /\ pool' = [pool EXCEPT !.pool = "open"]
            /\ call' = [op |-> "connect", threw |-> TRUE]
       ELSE /\ Len(pool.leases) < MaxLeases
            /\ pool' = [Pool_acquire([op |-> "connect", pc |-> "release",
                                      lease |-> 0])
                          EXCEPT !.pool = "open"]
            /\ UNCHANGED call
    /\ UNCHANGED <<backend, process, tasks, csv, files, droppedClients,
                   symbols, symbolSets, prisma, symbolTable, symbolSetTable,
                   clock, nops, result, payload>>

\* PostgreSQLDatabase.connect, client.release() and return.
PgConnectRelease ==
  \E c \in pool.calls :
    /\ c.op = "connect"
    /\ pool' = [pool EXCEPT
                  !.leases[c.lease] = PoolClient_release(@),
                  !.calls = @ \ {c}]
    /\ call' = [op |-> "connect", threw |-> FALSE]
    /\ UNCHANGED <<backend, process, tasks, csv, files, droppedClients,
                   symbols, symbolSets, prisma, symbolTable, symbolSetTable,
                   clock, nops, result, payload>>

\* PostgreSQLDatabase.disconnect: pool.end() and this.pool = null.
PgDisconnect ==
  /\ backend = "postgres"
  /\ pool' = [pool EXCEPT !.pool = "null"]
  /\ call' = [op |-> "disconnect", threw |-> FALSE]
  /\ UNCHANGED <<backend, process, tasks, csv, files, droppedClients,
                 symbols, symbolSets, prisma, symbolTable, symbolSetTable,
                 clock, nops, result, payload>>

\* An operation up to the answer of pool.connect() in executeQuery: without
\* pool, or without a client to be had, the catch block of the operation
\* returns the failure envelope.
PgBegin(c) ==
  \E rejects \in BOOLEAN :
    /\ backend = "postgres"
    /\ IF pool.pool = "null" \/ rejects
       THEN /\ call' = c
            /\ result' = Fail(IF pool.pool = "null" THEN MsgNotConnected
                              ELSE MsgPoolTimeout)
            /\ UNCHANGED pool
       ELSE /\ Len(pool.leases) < MaxLeases
            /\ pool' = Pool_acquire(c)
            /\ UNCHANGED <<call, result>>
    /\ UNCHANGED <<backend, process, tasks, csv, files, droppedClients,
                   symbols, symbolSets, prisma, symbolTable, symbolSetTable,
                   clock, nops, payload>>

PgGetSymbols ==
  \E options \in SearchPages :
    PgBegin([op |-> "getSymbols", options |-> options, pc |-> "query",
             lease |-> 0, answer |-> NoResult])

PgHealthCheck ==
  PgBegin([op |-> "healthCheck", options |-> NoOptions, pc |-> "query",
           lease |-> 0, answer |-> NoResult])

\* client.query settles: with the rows, or with an error.
PgQuerySettles ==
  \E c \in pool.calls, rejects \in BOOLEAN :
    /\ c.op # "connect"
    /\ c.pc = "query"
    /\ \E answer \in (IF rejects THEN {Fail(MsgQueryFailed)}
                      ELSE Pg_answers(c, symbolTable, now)) :
         pool' = [pool EXCEPT
                    !.leases[c.lease].failed = rejects,
                    !.calls = (@ \ {c}) \cup
                              {[c EXCEPT !.pc = "finally",
                                         !.answer = answer]}]
    /\ UNCHANGED <<backend, process, tasks, csv, files, droppedClients,
                   symbols, symbolSets, prisma, symbolTable, symbolSetTable,
                   clock, nops, call, result, payload>>

\* The finally block of executeQuery, then the return of the operation.
PgQueryReturns ==
  \E c \in pool.calls :
    /\ c.op # "connect"
    /\ c.pc = "finally"
    /\ pool' = [pool EXCEPT
                  !.leases[c.lease] = executeQuery_finally(@),
                  !.calls = @ \ {c}]
    /\ call' = [op |-> c.op, options |-> c.options, lease |-> c.lease]
    /\ result' = c.answer
    /\ UNCHANGED <<backend, process, tasks, csv, files, droppedClients,
                   symbols, symbolSets, prisma, symbolTable, symbolSetTable,
                   clock, nops, payload>>

NextPool ==
  \/ PgConnect
  \/ PgConnectRelease
  \/ PgDisconnect
  \/ PgGetSymbols
  \/ PgHealthCheck
  \/ PgQuerySettles
  \/ PgQueryReturns

SpecPool == InitPool /\ [][NextPool]_vars

\* The call that holds client n, if it is still running.
HolderOf(n) == {c \in pool.calls : c.lease = n}

\* C30: every client the pool handed to connect() or to a query is held by
\* one running call and not yet released, or was released exactly once by the
\* call that has ended, also when its query failed.
C30_ClientsReleasedOnce ==
  backend = "postgres" =>
    \A n \in 1..Len(pool.leases) :
      /\ Cardinality(HolderOf(n)) <= 1
      /\ pool.leases[n].releases = (IF HolderOf(n) = {} THEN 1 ELSE 0)

\* The client of connect() was released, and so was the client of a query
\* that failed, whose operation has returned the failure envelope.
C30_Witness ==
  /\ backend = "postgres"
  /\ Len(pool.leases) >= 2
  /\ pool.leases[1].by = "connect"
  /\ pool.leases[1].releases = 1
  /\ call.op = "getSymbols"
  /\ ~result.success
  /\ call.lease > 0
  /\ pool.leases[call.lease].failed
  /\ pool.leases[call.lease].releases = 1
  /\ HolderOf(call.lease) = {}

====
